---- MODULE Spec2Model ----
(***************************************************************************)
(* A model of the SomalifuscatorV2 de-obfuscator (src/deobfuscator.py).    *)
(*                                                                         *)
(* Text is modelled as TLA+ strings, a character as a string of length 1.  *)
(* The regular expressions of the program are data: a regex is a sequence  *)
(* of alternatives, an alternative a sequence of items (a character class  *)
(* with a repetition range and greediness, or a zero-width assertion), and *)
(* Match/FindIter is a backtracking matcher with the priorities of         *)
(* Python's re module (greedy: longest first, lazy: shortest first,        *)
(* alternatives left to right, leftmost match wins).                       *)
(***************************************************************************)
EXTENDS Integers, Sequences, FiniteSets, TLC

VARIABLES
    \* --- Character Resolver run (extract_initial_settings, then
    \*     deobfuscate_line_characters on every line) ---
    lines,            \* the input lines (a sequence of strings)
    payload,          \* how the last input line was built: [pre, tok, post]
    rpc,              \* position of the run
    ei,               \* loop index of extract_initial_settings
    settings,         \* [kdot_found, kdot_value, reverse_caesar_map]
    li,               \* index of the line being resolved
    processed_line,   \* local of deobfuscate_line_characters
    last_line,        \* local: <<>> is None, <<s>> is the string s
    passes,           \* local: pass counter of the running loop
    warnings,         \* the "Max substitution passes" warnings printed so far
    out,              \* char_deobfuscated_lines
    \* --- Scramble Reverser run (reverse_scrambling) ---
    s_in,             \* how the input was built (sites, blocks)
    s_lines,          \* the input lines
    s_pc,             \* position of the run
    eof_index,        \* 0-based index of the boundary line, -1 if none
    blocks,           \* the matches of RE_SCRAMBLED_BLOCK in the tail text
    bi,               \* index of the next block match to process
    label_to_code,    \* the label map (a function from label strings)
    main_text,        \* "\n".join(main_code_lines)
    jumps,            \* the matches of RE_SCRAMBLE_JUMP in main_text
    ji,               \* index of the next match to process
    reconstructed,    \* reconstructed_code (a sequence of strings)
    last_pos,         \* 0-based position after the last processed match
    s_out,            \* the returned lines
    raised,           \* <<>>, or <<code>> when SystemExit(code) left the function
    \* --- Junk Filter, Finalizer and the text that is written
    \*     (remove_inserted_code, final_cleanup, deobfuscate_file) ---
    scramble_reversed_lines,   \* the argument of remove_inserted_code
    removed_junk_lines,        \* its result
    final_lines,               \* the result of final_cleanup
    file_text,                 \* the characters that write_text puts in the file
    c_pc,                      \* position of the run
    \* --- the command-line run (__main__, deobfuscate_file) ---
    env,              \* the file system as the run finds it, and the input file
    ppc,              \* position of the run
    exit_code,        \* exit status of the process, -1 while it runs
    out_file,         \* <<>>: the output path is untouched; <<t>>: it holds t
    writes,           \* number of calls of write_text so far
    \* --- the host service (handle_deobfuscate of backend/app.py) ---
    h_env,            \* what the request and the file system do to the handler
    h_pc,             \* position of the handler
    temp_dir,         \* the local temp_dir: <<>> is None, <<d>> a directory name
    dir_exists,       \* whether the temporary directory exists on disk
    rmtree_calls,     \* number of calls of shutil.rmtree so far
    response,         \* <<>>, or <<r>> for the response r that is returned
    \* --- one call of the Expression Evaluator (safe_eval_batch_math) ---
    e_in,             \* how the expression was built, and its text
    e_pc,             \* position of the call
    e_result,         \* the returned value: <<>> is None, <<n>> the integer n
    e_raised          \* <<code>> when SystemExit(code) left the call

rvars == <<lines, payload, rpc, ei, settings, li, processed_line, last_line,
           passes, warnings, out>>
svars == <<s_in, s_lines, s_pc, eof_index, blocks, bi, label_to_code, main_text,
           jumps, ji, reconstructed, last_pos, s_out, raised>>
cvars == <<scramble_reversed_lines, removed_junk_lines, final_lines, file_text, c_pc>>
pvars == <<env, ppc, exit_code, out_file, writes>>
hvars == <<h_env, h_pc, temp_dir, dir_exists, rmtree_calls, response>>
evars == <<e_in, e_pc, e_result, e_raised>>
vars == <<rvars, svars, cvars, pvars, hvars, evars>>

----------------------------------------------------------------------------
(* Characters and strings *)

Ch(s, i) == SubSeq(s, i, i)

Digits == {"0", "1", "2", "3", "4", "5", "6", "7", "8", "9"}
LowerAlphabet == "abcdefghijklmnopqrstuvwxyz"
UpperAlphabet == "ABCDEFGHIJKLMNOPQRSTUVWXYZ"
LowerLetters == {Ch(LowerAlphabet, i) : i \in 1..Len(LowerAlphabet)}
UpperLetters == {Ch(UpperAlphabet, i) : i \in 1..Len(UpperAlphabet)}
Letters == LowerLetters \cup UpperLetters
AlNum == Letters \cup Digits
WordChars == AlNum \cup {"_"}                    \* \w
WhiteSpace == {" ", "\t", "\n", "\r", "\f"}      \* \s

\* str.lower() / str.upper() of one character
LowerCh(c) ==
    IF c \in UpperLetters
    THEN Ch(LowerAlphabet, CHOOSE i \in 1..Len(UpperAlphabet) : Ch(UpperAlphabet, i) = c)
    ELSE c
UpperCh(c) ==
    IF c \in LowerLetters
    THEN Ch(UpperAlphabet, CHOOSE i \in 1..Len(LowerAlphabet) : Ch(LowerAlphabet, i) = c)
    ELSE c

\* the only element of a singleton set. A result that is used more than once
\* is bound as { e(x) : x \in {result} }, which evaluates it once.
Only(S) == CHOOSE x \in S : TRUE

\* the least element of a non-empty set of integers, and its k-th smallest
Least(S) == CHOOSE x \in S : \A y \in S : x <= y
Kth(S, k) == CHOOSE x \in S : Cardinality({y \in S : y < x}) = k - 1

\* str.lower() / str.upper(); the string is halved so that the evaluation
\* is not nested deeper than the logarithm of its length
RECURSIVE StrLower(_)
StrLower(s) ==
    IF Len(s) <= 1 THEN LowerCh(s)
    ELSE StrLower(SubSeq(s, 1, Len(s) \div 2)) \o StrLower(SubSeq(s, Len(s) \div 2 + 1, Len(s)))
RECURSIVE StrUpper(_)
StrUpper(s) ==
    IF Len(s) <= 1 THEN UpperCh(s)
    ELSE StrUpper(SubSeq(s, 1, Len(s) \div 2)) \o StrUpper(SubSeq(s, Len(s) \div 2 + 1, Len(s)))

\* "sep".join(seq)
RECURSIVE Join(_, _)
Join(sep, seq) ==
    IF seq = <<>> THEN ""
    ELSE IF Len(seq) = 1 THEN seq[1]
    ELSE Join(sep, SubSeq(seq, 1, Len(seq) \div 2)) \o sep
         \o Join(sep, SubSeq(seq, Len(seq) \div 2 + 1, Len(seq)))

\* position (1-based) of the first occurrence of sub in s at or after i, 0 if none
Find(s, sub, i) ==
    Only({IF S = {} THEN 0 ELSE Least(S) :
              S \in {{p \in i..(Len(s) - Len(sub) + 1) : SubSeq(s, p, p + Len(sub) - 1) = sub}}})

\* str.replace(old, new): all non-overlapping occurrences, left to right
RECURSIVE Replace(_, _, _)
Replace(s, old, new) ==
    Only({IF p = 0 THEN s
          ELSE SubSeq(s, 1, p - 1) \o new
               \o Replace(SubSeq(s, p + Len(old), Len(s)), old, new) :
              p \in {Find(s, old, 1)}})

\* the positions of s that hold a white-space character, and the others
SpacesOf(s) == {p \in 1..Len(s) : Ch(s, p) \in WhiteSpace}
InkOf(s) == (1..Len(s)) \ SpacesOf(s)

\* str.strip() restricted to the white space of the model
LStrip(s) ==
    Only({IF ink = {} THEN "" ELSE SubSeq(s, Least(ink), Len(s)) : ink \in {InkOf(s)}})
RStrip(s) ==
    Only({IF ink = {} THEN "" ELSE SubSeq(s, 1, CHOOSE p \in ink : \A q \in ink : q <= p) :
              ink \in {InkOf(s)}})
Strip(s) == LStrip(RStrip(s))

\* str.split(): the maximal runs of non-white-space characters
Split(s) ==
    Only({[k \in 1..Cardinality(starts) |->
               SubSeq(s, Kth(starts, k), Kth(ends, k))] :
              starts \in {{p \in InkOf(s) : p = 1 \/ Ch(s, p - 1) \in WhiteSpace}},
              ends \in {{p \in InkOf(s) : p = Len(s) \/ Ch(s, p + 1) \in WhiteSpace}}})

\* str.split(sep) for a separator sep of one character
SplitOn(s, sep) ==
    Only({[k \in 1..(Cardinality(cuts) - 1) |->
               SubSeq(s, Kth(cuts, k) + 1, Kth(cuts, k + 1) - 1)] :
              cuts \in {{0, Len(s) + 1} \cup {p \in 1..Len(s) : Ch(s, p) = sep}}})
\* str.splitlines() on text whose only line boundary is "\n"
SplitLines(s) ==
    IF s = "" THEN <<>>
    ELSE Only({IF parts[Len(parts)] = "" THEN SubSeq(parts, 1, Len(parts) - 1) ELSE parts :
                   parts \in {SplitOn(s, "\n")}})

\* int(s) for s matching -?\d+
DigitVal(c) == CHOOSE n \in 0..9 : Ch("0123456789", n + 1) = c
RECURSIVE ParseNat(_, _)
ParseNat(s, acc) == IF s = "" THEN acc ELSE ParseNat(Tail(s), 10 * acc + DigitVal(Ch(s, 1)))
ParseInt(s) == IF s # "" /\ Ch(s, 1) = "-" THEN 0 - ParseNat(Tail(s), 0) ELSE ParseNat(s, 0)

\* str(n) of an integer
RECURSIVE NatToStr(_)
NatToStr(n) ==
    IF n < 10 THEN Ch("0123456789", n + 1)
    ELSE NatToStr(n \div 10) \o Ch("0123456789", (n % 10) + 1)
IntToStr(n) == IF n < 0 THEN "-" \o NatToStr(0 - n) ELSE NatToStr(n)

----------------------------------------------------------------------------
(* Regular expressions *)

\* one item of a pattern: a class (set, or its complement when neg) repeated
\* min..max times (max = 0: no upper limit), lazily or greedily
Item(neg, set, min, max, lazy) ==
    [kind |-> "cls", neg |-> neg, set |-> set, min |-> min, max |-> max, lazy |-> lazy]
One(set) == Item(FALSE, set, 1, 1, FALSE)
Opt(set) == Item(FALSE, set, 0, 1, FALSE)
Star(set) == Item(FALSE, set, 0, 0, FALSE)
Plus(set) == Item(FALSE, set, 1, 0, FALSE)
AnyOne == Item(TRUE, {"\n"}, 1, 1, FALSE)                \* .
DotLazy == Item(TRUE, {"\n"}, 0, 0, TRUE)        \* .*?
DotStar == Item(TRUE, {"\n"}, 0, 0, FALSE)       \* .*
AllLazy == Item(TRUE, {}, 0, 0, TRUE)            \* [\s\S]*?
SStar == Star(WhiteSpace)                                \* \s*
SPlus == Plus(WhiteSpace)                                \* \s+
Bol == [kind |-> "bol"]     \* ^ without re.MULTILINE (and the anchor of match())
BolM == [kind |-> "bolm"]   \* ^ with re.MULTILINE
Eol == [kind |-> "eol"]     \* $ without re.MULTILINE
EolM == [kind |-> "eolm"]   \* $ with re.MULTILINE

\* a literal text, case-sensitive, and under re.IGNORECASE: one item for
\* every character
Lit(s) == [i \in 1..Len(s) |-> One({Ch(s, i)})]
LitI(s) == [i \in 1..Len(s) |-> One({LowerCh(Ch(s, i)), UpperCh(Ch(s, i))})]
\* the same as one item
Word(s) == [kind |-> "lit", text |-> s, ci |-> FALSE]
WordI(s) == [kind |-> "lit", text |-> StrLower(s), ci |-> TRUE]

InClass(c, it) == (c \in it.set) # it.neg

\* the number of consecutive characters of text from pos on that are in the
\* class of it, counted up to it.max
RunLen(text, pos, it) ==
    Only({IF it.max # 0 /\ n > it.max THEN it.max ELSE n :
              n \in {Least({p \in pos..(Len(text) + 1) :
                               p = Len(text) + 1 \/ ~InClass(Ch(text, p), it)}) - pos}})

\* the width of a literal or assertion at pos, -1 when it does not hold
WidthAt(it, text, pos) ==
    CASE it.kind = "bol" -> IF pos = 1 THEN 0 ELSE -1
      [] it.kind = "bolm" -> IF pos = 1 \/ Ch(text, pos - 1) = "\n" THEN 0 ELSE -1
      [] it.kind = "eol" ->
            IF pos = Len(text) + 1 \/ (pos = Len(text) /\ Ch(text, pos) = "\n") THEN 0 ELSE -1
      [] it.kind = "eolm" -> IF pos = Len(text) + 1 \/ Ch(text, pos) = "\n" THEN 0 ELSE -1
      [] it.kind = "lit" ->
            IF pos + Len(it.text) - 1 > Len(text) THEN -1
            ELSE IF it.ci
                 THEN IF StrLower(SubSeq(text, pos, pos + Len(it.text) - 1)) = it.text
                      THEN Len(it.text) ELSE -1
                 ELSE IF SubSeq(text, pos, pos + Len(it.text) - 1) = it.text
                      THEN Len(it.text) ELSE -1

\* the repetition count that the matcher settles on, given the pairs
\* <<k, r>> of a count k and the match r of the items that follow it: the
\* first count that has a match, counting up from the minimum for a lazy item
\* and down from the maximum for a greedy one
Settle(it, found) ==
    IF it.lazy
    THEN CHOOSE f \in found : \A g \in found : f[1] <= g[1]
    ELSE CHOOSE f \in found : \A g \in found : f[1] >= g[1]

\* Match items i.. of pat at pos (1-based). The result is <<>> when there is
\* no match, and otherwise the start position of every item from i on,
\* followed by the position after the match.
RECURSIVE MatchFrom(_, _, _, _)
MatchFrom(pat, i, text, pos) ==
    IF i > Len(pat) THEN <<pos>>
    ELSE IF pat[i].kind # "cls"
    THEN Only({IF w < 0 THEN <<>>
               ELSE Only({IF r = <<>> THEN <<>> ELSE <<pos>> \o r :
                              r \in {MatchFrom(pat, i + 1, text, pos + w)}}) :
                   w \in {WidthAt(pat[i], text, pos)}})
    ELSE Only({IF found = {} THEN <<>> ELSE <<pos>> \o Settle(pat[i], found)[2] :
                   found \in {{f \in {<<k, MatchFrom(pat, i + 1, text, pos + k)>> :
                                         k \in pat[i].min..RunLen(text, pos, pat[i])} :
                                  f[2] # <<>>}}})

NoMatch == [alt |-> 0, tr |-> <<>>]

\* the first alternative of re (from alternative k on) that matches at pos
RECURSIVE MatchAlts(_, _, _, _)
MatchAlts(re, k, text, pos) ==
    IF k > Len(re) THEN NoMatch
    ELSE Only({IF r # <<>> THEN [alt |-> k, tr |-> r]
               ELSE MatchAlts(re, k + 1, text, pos) :
                   r \in {MatchFrom(re[k], 1, text, pos)}})

\* pattern.match(text): a match at the start of text
Match(re, text) == MatchAlts(re, 1, text, 1)

MStart(m) == m.tr[1]
MEnd(m) == m.tr[Len(m.tr)]
\* the text matched by items a..b of the alternative that matched
MGroup(m, text, a, b) == SubSeq(text, m.tr[a], m.tr[b + 1] - 1)
MText(m, text) == SubSeq(text, MStart(m), MEnd(m) - 1)

\* the positions from pos on where a match of re can start: only the start
\* of the text when every alternative begins with ^ (without re.MULTILINE)
StartsFrom(re, text, pos) ==
    IF \A k \in 1..Len(re) : re[k] # <<>> /\ re[k][1].kind = "bol"
    THEN {1} \cap (pos..(Len(text) + 1))
    ELSE pos..(Len(text) + 1)

\* pattern.search(text, pos): the leftmost match that starts at pos or
\* later, NoMatch if there is none
SearchFrom(re, text, pos) ==
    Only({IF found = {} THEN NoMatch
          ELSE (CHOOSE f \in found : \A g \in found : f[1] <= g[1])[2] :
              found \in {{f \in {<<p, MatchAlts(re, 1, text, p)>> :
                                    p \in StartsFrom(re, text, pos)} :
                             f[2].alt # 0}}})
Search(re, text) == SearchFrom(re, text, 1)

\* pattern.finditer(text): the non-overlapping matches, leftmost first
\* (no pattern of the program matches the empty string)
RECURSIVE FindIterFrom(_, _, _)
FindIterFrom(re, text, pos) ==
    Only({IF m.alt = 0 THEN <<>> ELSE <<m>> \o FindIterFrom(re, text, MEnd(m)) :
              m \in {SearchFrom(re, text, pos)}})
FindIter(re, text) == FindIterFrom(re, text, 1)

----------------------------------------------------------------------------
(* Constants and known patterns of the Character Resolver *)

\* ENV_VAR_VALUES. The entries the program reads from os.environ are given
\* their defaults (the values the program has where the variable is unset).
ENV_VAR_VALUES ==
    ("PUBLIC" :> "C:\\Users\\Public")
    @@ ("COMMONPROGRAMFILES(X86)" :> "C:\\Program Files (x86)\\Common Files")
    @@ ("PROGRAMFILES" :> "C:\\Program Files")
    @@ ("PROGRAMFILES(X86)" :> "C:\\Program Files (x86)")
    @@ ("DRIVERDATA" :> "C:\\Windows\\System32\\Drivers\\DriverData")
    @@ ("COMMONPROGRAMFILES" :> "C:\\Program Files\\Common Files")
    @@ ("COMMONPROGRAMW6432" :> "C:\\Program Files\\Common Files")
    @@ ("USERPROFILE" :> "C:\\Users\\Default")
    @@ ("TEMP" :> "C:\\Users\\Default\\AppData\\Local\\Temp")
    @@ ("TMP" :> "C:\\Users\\Default\\AppData\\Local\\Temp")
    @@ ("LOCALAPPDATA" :> "C:\\Users\\Default\\AppData\\Local")
    @@ ("APPDATA" :> "C:\\Users\\Default\\AppData\\Roaming")
    @@ ("OS" :> "Windows_NT")
    @@ ("SYSTEMDRIVE" :> "C:")
    @@ ("SESSIONNAME" :> "Console")

\* ^\s*set\s+KDOT=([a-zA-Z0-9]+)            group 1: item 12
RE_KDOT ==
    << <<Bol, SStar>> \o LitI("set") \o <<SPlus>> \o LitI("KDOT=") \o <<Plus(AlNum)>> >>

\* ^\s*set\s+([a-z])=([a-z])                group 1: item 7, group 2: item 9
RE_CAESAR_DEF ==
    << <<Bol, SStar>> \o LitI("set") \o <<SPlus, One(Letters), One({"="}), One(Letters)>> >>

\* %(\w+):~(-?\d+),(?:\s*)1%                group 1: item 2, group 2: items 5..6
RE_ENV_SLICE ==
    << <<One({"%"}), Plus(WordChars)>> \o Lit(":~")
       \o <<Opt({"-"}), Plus(Digits), One({","}), SStar, One({"1"}), One({"%"})>> >>

\* %KDOT:~(-?\d+),(?:\s*)1%                 group 1: items 8..9
RE_KDOT_SLICE ==
    << <<One({"%"})>> \o LitI("KDOT") \o Lit(":~")
       \o <<Opt({"-"}), Plus(Digits), One({","}), SStar, One({"1"}), One({"%"})>> >>

\* %([a-z])(1?)%(?:%[a-zA-Z0-9]+%)?         group 1: item 2, group 2: item 3
\* The optional group ends the pattern: with it first, without it second.
RE_CAESAR_JUNK ==
    << <<One({"%"}), One(Letters), Opt({"1"}), One({"%"}), One({"%"}), Plus(AlNum), One({"%"})>>,
       <<One({"%"}), One(Letters), Opt({"1"}), One({"%"})>> >>

\* %[a-zA-Z0-9]+%(.)%[a-zA-Z0-9]+%          group 1: item 4
RE_SIMPLE_JUNK ==
    << <<One({"%"}), Plus(AlNum), One({"%"}), AnyOne, One({"%"}), Plus(AlNum), One({"%"})>> >>

\* (RE_ENV_SLICE)|(RE_KDOT_SLICE)|(RE_CAESAR_JUNK): alternative 1 is the
\* environment slice, 2 the KDOT slice, 3 and 4 the Caesar reference
RE_COMBINED_SPECIFIC_CHAR_OBF == RE_ENV_SLICE \o RE_KDOT_SLICE \o RE_CAESAR_JUNK

max_passes == 15
max_passes_junk == 5

known_commands ==
    {"echo", "set", "goto", "if", "for", "call", "exit", "chcp", "cls", "rem",
     "pause", "del", "copy", "move", "ren", "md", "rd", "dir", "find", "findstr",
     "type", "sort", "start", "assoc", "ftype", "pushd", "popd", "setlocal", "endlocal",
     "verify", "vol", "label", "path", "prompt", "title", "color", "mode", "net", "sc",
     "taskkill", "tasklist", "wmic", "powershell", "cscript"}

----------------------------------------------------------------------------
(* Settings Extractor: one iteration of the loop of extract_initial_settings *)

EmptyMap == [c \in {} |-> ""]
InitialSettings == [kdot_found |-> FALSE, kdot_value |-> "", reverse_caesar_map |-> EmptyMap]

\* "Find KDOT only once"
ExtractKdot(st, line) ==
    LET kdot_match == Match(RE_KDOT, line) IN
    IF ~st.kdot_found /\ kdot_match.alt # 0
    THEN [st EXCEPT !.kdot_value = MGroup(kdot_match, line, 12, 12), !.kdot_found = TRUE]
    ELSE st

\* (mutant: a later definition for a key replaces the earlier one)
ExtractCaesar_LastWins(st, line) ==
    LET caesar_match == Match(RE_CAESAR_DEF, line)
        original_char == StrLower(MGroup(caesar_match, line, 7, 7))
        obfuscated_char == StrLower(MGroup(caesar_match, line, 9, 9))
    IN  IF caesar_match.alt # 0
        THEN [st EXCEPT !.reverse_caesar_map = (obfuscated_char :> original_char) @@ @]
        ELSE st

\* "Find Caesar definitions": the first letter of the definition is stored as
\* the value, the second as the key
ExtractCaesar(st, line) ==
    LET caesar_match == Match(RE_CAESAR_DEF, line)
        original_char == StrLower(MGroup(caesar_match, line, 7, 7))
        obfuscated_char == StrLower(MGroup(caesar_match, line, 9, 9))
    IN  IF caesar_match.alt # 0 /\ obfuscated_char \notin DOMAIN st.reverse_caesar_map
        THEN [st EXCEPT !.reverse_caesar_map = @ @@ (obfuscated_char :> original_char)]
        ELSE st

ExtractLine(st, line) == ExtractCaesar(ExtractKdot(st, line), line)

----------------------------------------------------------------------------
(* Character Resolver helpers *)

\* get_char_from_env_slice: m is a match of RE_ENV_SLICE on text
get_char_from_env_slice(m, text) ==
    LET var_name == StrUpper(MGroup(m, text, 2, 2))
        index == ParseInt(MGroup(m, text, 5, 6))
    IN  IF var_name \in DOMAIN ENV_VAR_VALUES
        THEN LET value == ENV_VAR_VALUES[var_name]
                 actual_index == IF index < 0 THEN Len(value) + index ELSE index
             IN  IF 0 <= actual_index /\ actual_index < Len(value)
                 THEN Ch(value, actual_index + 1)
                 ELSE ""
        ELSE MText(m, text)

\* get_char_from_kdot: m is a match of RE_KDOT_SLICE on text
get_char_from_kdot(m, text, st) ==
    IF ~st.kdot_found THEN MText(m, text)
    ELSE LET index == ParseInt(MGroup(m, text, 8, 9)) IN
         IF 0 <= index /\ index < Len(st.kdot_value)
         THEN Ch(st.kdot_value, index + 1)
         ELSE ""

\* (mutant: the letter of the map is returned as a reference again)
get_char_from_caesar_Wrapped(m, text, reverse_map) ==
    LET obfuscated_char == StrLower(MGroup(m, text, 2, 2))
    IN  IF obfuscated_char \in DOMAIN reverse_map
        THEN "%" \o reverse_map[obfuscated_char] \o "%"
        ELSE MText(m, text)

\* get_char_from_caesar: m is a match of RE_CAESAR_JUNK on text
get_char_from_caesar(m, text, reverse_map) ==
    LET obfuscated_char == StrLower(MGroup(m, text, 2, 2))
        is_upper_marker == MGroup(m, text, 3, 3)
    IN  IF obfuscated_char \in DOMAIN reverse_map
        THEN IF is_upper_marker # ""
             THEN StrUpper(reverse_map[obfuscated_char])
             ELSE reverse_map[obfuscated_char]
        ELSE MText(m, text)

\* replace_callback: m is a match of RE_COMBINED_SPECIFIC_CHAR_OBF on text.
\* group(2) is set exactly when alternative 1 matched, group(5) when
\* alternative 2 did, group(7) when the Caesar reference did; the matched
\* text is then matched again by the pattern of its own kind.
replace_callback(m0, text, st) ==
    Only({IF m.alt = 1
          THEN Only({IF env_match.alt # 0 THEN get_char_from_env_slice(env_match, whole)
                     ELSE whole : env_match \in {Match(RE_ENV_SLICE, whole)}})
          ELSE IF m.alt = 2
          THEN Only({IF kdot_match.alt # 0 THEN get_char_from_kdot(kdot_match, whole, st)
                     ELSE whole : kdot_match \in {Match(RE_KDOT_SLICE, whole)}})
          ELSE Only({IF caesar_match.alt # 0
                     THEN get_char_from_caesar(caesar_match, whole, st.reverse_caesar_map)
                     ELSE whole : caesar_match \in {Match(RE_CAESAR_JUNK, whole)}}) :
              m \in {m0}, whole \in {MText(m0, text)}})

\* pattern.sub: text with the matches ms (from match k on, text from pos on)
\* replaced, by replace_callback when combined and by group 1 otherwise
RECURSIVE SubFrom(_, _, _, _, _, _)
SubFrom(text, ms, k, pos, combined, st) ==
    IF k > Len(ms) THEN SubSeq(text, pos, Len(text))
    ELSE SubSeq(text, pos, MStart(ms[k]) - 1)
         \o (IF combined THEN replace_callback(ms[k], text, st)
             ELSE MGroup(ms[k], text, 4, 4))
         \o SubFrom(text, ms, k + 1, MEnd(ms[k]), combined, st)

\* RE_COMBINED_SPECIFIC_CHAR_OBF.sub(replace_callback, line)
CombinedPass(line, st) ==
    Only({SubFrom(line, ms, 1, 1, TRUE, st) :
              ms \in {FindIter(RE_COMBINED_SPECIFIC_CHAR_OBF, line)}})

\* RE_SIMPLE_JUNK.sub(r"\1", line)
JunkPass(line) ==
    Only({SubFrom(line, ms, 1, 1, FALSE, InitialSettings) :
              ms \in {FindIter(RE_SIMPLE_JUNK, line)}})

\* "Only iterate if there are patterns to potentially match"
HasPatterns(line, st) ==
    \/ st.kdot_found
    \/ DOMAIN st.reverse_caesar_map # {}
    \/ \E v \in DOMAIN ENV_VAR_VALUES : Find(line, "%" \o v \o ":~", 1) # 0

\* processed_line != last_line, and the loop condition of both substitution loops
Differs(processed, last) == IF last = <<>> THEN TRUE ELSE last[1] # processed
\* (mutant: the loop runs to the fixed point, without the pass bound)
LoopCond_NoBound(processed, last, n, bound) == Differs(processed, last)
LoopCond(processed, last, n, bound) == Differs(processed, last) /\ n < bound

\* the condition of the warning after a loop
BoundReached(processed, last, n, bound) ==
    n >= bound /\ Differs(processed, last)

\* Pass 3: remove leftover markers
StripMarkers(line) == Replace(Replace(line, "%escape%", ""), "%STOP_OBF_HERE%", "")

\* (mutant: the first word is lower-cased whether or not it names a command)
NormalizeCase_AnyFirstWord(line) ==
    LET words == Split(line) IN
    IF words = <<>> THEN line
    ELSE Join(" ", <<StrLower(words[1])>> \o Tail(words))

\* Pass 4: normalize command case
NormalizeCase(line) ==
    LET words == Split(line) IN
    IF words = <<>> THEN line
    ELSE LET first_word_lower == StrLower(words[1])
             stripped == IF Find(first_word_lower, ":", 1) = 1
                         THEN SubSeq(first_word_lower,
                                     1 + RunLen(first_word_lower, 1, Star({":"})),
                                     Len(first_word_lower))
                         ELSE first_word_lower
         IN  Join(" ", IF stripped \in known_commands
                       THEN <<first_word_lower>> \o Tail(words)
                       ELSE words)

----------------------------------------------------------------------------
(* The Character Resolver run: deobfuscate_file, steps 2 and 3 *)

MaxIdx == 11     \* slice indices of the input tokens range over -MaxIdx..MaxIdx
MaxNest == 16    \* nesting depth of the nested cipher references of the input
MaxJunkNest == 6 \* nesting depth of the junk wrapping of the input

\* the definition lines that precede the payload line
DefConfigs ==
    { <<>>,
      <<"set KDOT=abc">>,
      <<"set a=x">>,
      <<"set KDOT=abc", "set a=x">>,
      <<"set a=a">>,
      <<"SET q=a", "set y=a", "  set  KDOT=Zq9", "set KDOT=abc">>,
      <<"set a=x", "SET A=X", "set b=x">> }

RECURSIVE Percents(_)
Percents(n) == IF n = 0 THEN "" ELSE "%" \o Percents(n - 1)
\* a cipher reference nested d deep: %%%a%%% for d = 3
Nest(d) == Percents(d) \o "a" \o Percents(d)

\* a character wrapped d deep in junk variables: %j1%%j1%e%j2%%j2% for d = 2
RECURSIVE Repeat(_, _)
Repeat(t, n) == IF n = 0 THEN "" ELSE t \o Repeat(t, n - 1)
JunkNest(d) == Repeat("%j1%", d) \o "e" \o Repeat("%j2%", d)

EnvToken(var, idx, sp) == "%" \o var \o ":~" \o IntToStr(idx) \o "," \o sp \o "1%"

\* the tokens of the payload line, each with its kind and parameters
Tokens ==
    {[kind |-> "env", var |-> v, idx |-> i, text |-> EnvToken(v, i, "")] :
        v \in {"OS", "os", "PROGRAMFILES(X86)", "FOO"}, i \in -MaxIdx..MaxIdx}
    \cup {[kind |-> "env", var |-> "OS", idx |-> i, text |-> EnvToken("OS", i, "  ")] :
        i \in {-1, 0}}
    \cup {[kind |-> "kdot", var |-> v, idx |-> i, text |-> EnvToken(v, i, "")] :
        v \in {"KDOT", "kdot"}, i \in -1..MaxIdx}
    \cup {[kind |-> "caesar", var |-> c, idx |-> 0, text |-> "%" \o c \o "%"] :
        c \in {"a", "x", "A", "q"}}
    \cup {[kind |-> "caesar1", var |-> c, idx |-> 0, text |-> "%" \o c \o "1%"] :
        c \in {"a", "x"}}
    \cup {[kind |-> "caesarjunk", var |-> c, idx |-> 0, text |-> "%" \o c \o "%%j9%"] :
        c \in {"a", "x"}}
    \cup {[kind |-> "nest", var |-> "a", idx |-> d, text |-> Nest(d)] : d \in 2..MaxNest}
    \cup {[kind |-> "junk", var |-> "", idx |-> d, text |-> JunkNest(d)] :
        d \in 1..MaxJunkNest}
    \cup {[kind |-> "plain", var |-> "", idx |-> 0, text |-> t] :
        t \in {"", "hi", "ECHO  Hi", "echo hi", ":GOTO\tx ", "  ", "50% off",
               "%foo%", "a%-%b", "% 1%-% 2%", "a%escape%b"}}

Pres == {"", "z", "if "}
Posts == {"", "Z"}

Payloads == {[pre |-> a, tok |-> t, post |-> b] : a \in Pres, t \in Tokens, b \in Posts}
PayloadText(p) == p.pre \o p.tok.text \o p.post

SIdle ==
    /\ s_in = <<>> /\ s_lines = <<>> /\ s_pc = "idle" /\ eof_index = -1
    /\ blocks = <<>> /\ bi = 1
    /\ label_to_code = EmptyMap /\ main_text = "" /\ jumps = <<>> /\ ji = 1
    /\ reconstructed = <<>> /\ last_pos = 0 /\ s_out = <<>> /\ raised = <<>>

\* the Junk Filter and the Finalizer are not running
CIdle ==
    /\ scramble_reversed_lines = <<>> /\ removed_junk_lines = <<>> /\ final_lines = <<>>
    /\ file_text = "" /\ c_pc = "idle"

\* no command-line run
PIdle ==
    /\ env = <<>> /\ ppc = "idle" /\ exit_code = -1 /\ out_file = <<>> /\ writes = 0

\* no request in the host service
HIdle ==
    /\ h_env = <<>> /\ h_pc = "idle" /\ temp_dir = <<>> /\ dir_exists = FALSE
    /\ rmtree_calls = 0 /\ response = <<>>

\* no call of the Expression Evaluator on its own
EIdle == e_in = <<>> /\ e_pc = "idle" /\ e_result = <<>> /\ e_raised = <<>>

RInitOver(ps, ds) ==
    /\ payload \in ps
    /\ \E d \in ds : lines = Append(d, PayloadText(payload))
    /\ rpc = "extract"
    /\ ei = 1
    /\ settings = InitialSettings
    /\ li = 1
    /\ processed_line = ""
    /\ last_line = <<>>
    /\ passes = 0
    /\ warnings = <<>>
    /\ out = <<>>
    /\ SIdle /\ CIdle /\ PIdle /\ HIdle /\ EIdle

RInit == RInitOver(Payloads, DefConfigs)

\* one iteration of the loop of extract_initial_settings
ExtractStep ==
    /\ rpc = "extract" /\ ei <= Len(lines)
    /\ settings' = ExtractLine(settings, lines[ei])
    /\ ei' = ei + 1
    /\ UNCHANGED <<lines, payload, rpc, li, processed_line, last_line, passes, warnings, out>>
    /\ UNCHANGED <<svars, cvars, pvars, hvars, evars>>

\* extract_initial_settings returns; deobfuscate_file starts its loop
ExtractDone ==
    /\ rpc = "extract" /\ ei > Len(lines)
    /\ rpc' = "line"
    /\ li' = 1
    /\ UNCHANGED <<lines, payload, ei, settings, processed_line, last_line, passes,
                   warnings, out>>
    /\ UNCHANGED <<svars, cvars, pvars, hvars, evars>>

\* deobfuscate_line_characters is entered for line li
BeginLine ==
    /\ rpc = "line" /\ li <= Len(lines)
    /\ processed_line' = lines[li]
    /\ last_line' = <<>>
    /\ passes' = 0
    /\ rpc' = IF HasPatterns(lines[li], settings) THEN "pass1" ELSE "pass2"
    /\ UNCHANGED <<lines, payload, ei, settings, li, warnings, out>>
    /\ UNCHANGED <<svars, cvars, pvars, hvars, evars>>

\* one iteration of the loop of Pass 1
Pass1Step ==
    /\ rpc = "pass1" /\ LoopCond(processed_line, last_line, passes, max_passes)
    /\ last_line' = <<processed_line>>
    /\ processed_line' = CombinedPass(processed_line, settings)
    /\ passes' = passes + 1
    /\ UNCHANGED <<lines, payload, rpc, ei, settings, li, warnings, out>>
    /\ UNCHANGED <<svars, cvars, pvars, hvars, evars>>

\* the loop of Pass 1 ends: the warning, then the locals of Pass 2
Pass1Exit ==
    /\ rpc = "pass1" /\ ~LoopCond(processed_line, last_line, passes, max_passes)
    /\ warnings' = IF BoundReached(processed_line, last_line, passes, max_passes)
                   THEN Append(warnings, [line |-> li, loop |-> "specific"])
                   ELSE warnings
    /\ passes' = 0
    /\ last_line' = <<>>
    /\ rpc' = "pass2"
    /\ UNCHANGED <<lines, payload, ei, settings, li, processed_line, out>>
    /\ UNCHANGED <<svars, cvars, pvars, hvars, evars>>

\* one iteration of the loop of Pass 2
Pass2Step ==
    /\ rpc = "pass2" /\ LoopCond(processed_line, last_line, passes, max_passes_junk)
    /\ last_line' = <<processed_line>>
    /\ processed_line' = JunkPass(processed_line)
    /\ passes' = passes + 1
    /\ UNCHANGED <<lines, payload, rpc, ei, settings, li, warnings, out>>
    /\ UNCHANGED <<svars, cvars, pvars, hvars, evars>>

\* the loop of Pass 2 ends: the warning, Pass 3, Pass 4, and the line is
\* returned and appended to char_deobfuscated_lines
Pass2Exit ==
    /\ rpc = "pass2" /\ ~LoopCond(processed_line, last_line, passes, max_passes_junk)
    /\ warnings' = IF BoundReached(processed_line, last_line, passes, max_passes_junk)
                   THEN Append(warnings, [line |-> li, loop |-> "junk"])
                   ELSE warnings
    /\ processed_line' = NormalizeCase(StripMarkers(processed_line))
    /\ out' = Append(out, processed_line')
    /\ li' = li + 1
    /\ rpc' = "line"
    /\ UNCHANGED <<lines, payload, ei, settings, last_line, passes>>
    /\ UNCHANGED <<svars, cvars, pvars, hvars, evars>>

\* every line is resolved
ResolveDone ==
    /\ rpc = "line" /\ li > Len(lines)
    /\ rpc' = "done"
    /\ UNCHANGED <<lines, payload, ei, settings, li, processed_line, last_line, passes,
                   warnings, out>>
    /\ UNCHANGED <<svars, cvars, pvars, hvars, evars>>

RNext ==
    \/ ExtractStep \/ ExtractDone \/ BeginLine \/ Pass1Step \/ Pass1Exit
    \/ Pass2Step \/ Pass2Exit \/ ResolveDone

SpecResolver == RInit /\ [][RNext]_vars

----------------------------------------------------------------------------
(* The Expression Evaluator: safe_eval_batch_math *)

\* re.sub(pattern, repl, text) for a constant replacement
RECURSIVE SubConstFrom(_, _, _, _, _)
SubConstFrom(text, ms, k, pos, repl) ==
    IF k > Len(ms) THEN SubSeq(text, pos, Len(text))
    ELSE SubSeq(text, pos, MStart(ms[k]) - 1) \o repl
         \o SubConstFrom(text, ms, k + 1, MEnd(ms[k]), repl)
SubConst(re, repl, text) ==
    Only({SubConstFrom(text, ms, 1, 1, repl) : ms \in {FindIter(re, text)}})

\* re.sub(r'\s*OP\s*', repl, expression) for an operator OP of one character
OperatorSub(op, repl, expression) == SubConst(<< <<SStar, Word(op), SStar>> >>, repl, expression)

\* the operator replacements, in the order of the program: the Batch
\* operator and the Python text that takes its place
OperatorSubs ==
    << <<"^^", "^">>, <<"-", "-">>, <<"+", "+">>, <<"*", "*">>, <<"/", "//">>,
       <<"%", "%">>, <<"<<", "<<">>, <<">>", ">>">>, <<"&", "&">>, <<"|", "|">> >>
\* the replacements from the i-th on; each result is computed before the
\* next replacement starts
RECURSIVE ApplySubsFrom(_, _)
ApplySubsFrom(i, expression) ==
    IF i > Len(OperatorSubs) THEN expression
    ELSE Only({ApplySubsFrom(i + 1, replaced) :
                   replaced \in {OperatorSub(OperatorSubs[i][1], OperatorSubs[i][2],
                                             expression)}})
BatchToPython(expression) ==
    Only({ApplySubsFrom(1, e) : e \in {expression}})

\* The tokens of a Python expression from position p on: numbers, names,
\* operators and parentheses; white space between tokens is skipped.
\* A decimal literal with a leading zero is valid only if it is all zeros, a
\* literal with the prefix 0x is hexadecimal, and a literal that runs into a
\* letter is invalid. True and False are the integers 1 and 0; every other
\* word is a name, and no name is defined (the globals hold no builtins, the
\* locals are empty).
\* Not modelled, and written in no expression of the model: the power
\* operator ** (a token that the grammar below has no rule for), the words
\* that are operators (not, and, or, if, else, in, is, lambda), comparisons,
\* 0o and 0b literals, floats, underscores in numbers, strings, subscripts
\* and calls other than the one of PyEvalExit.
NameChars == WordChars
HexDigits == Digits \cup {"a", "b", "c", "d", "e", "f", "A", "B", "C", "D", "E", "F"}
HexVal(c) == CHOOSE n \in 0..15 : Ch("0123456789abcdef", n + 1) = LowerCh(c)
RECURSIVE ParseHex(_, _)
ParseHex(s, acc) == IF s = "" THEN acc ELSE ParseHex(Tail(s), 16 * acc + HexVal(Ch(s, 1)))
\* whether the character at p, if any, continues a name
RunsIntoName(e, p) == p <= Len(e) /\ Ch(e, p) \in NameChars
Lexeme(e, p) ==
    IF Ch(e, p) = "0" /\ p < Len(e) /\ Ch(e, p + 1) \in {"x", "X"}
    THEN Only({IF n = 0 \/ RunsIntoName(e, p + 2 + n) THEN [t |-> "bad", len |-> 2 + n]
               ELSE [t |-> "num", v |-> ParseHex(SubSeq(e, p + 2, p + 1 + n), 0),
                     len |-> 2 + n] :
                   n \in {RunLen(e, p + 2, Star(HexDigits))}})
    ELSE IF Ch(e, p) \in Digits
    THEN Only({IF RunsIntoName(e, p + n) THEN [t |-> "bad", len |-> n]
               ELSE IF n > 1 /\ Ch(e, p) = "0" /\ ParseNat(SubSeq(e, p, p + n - 1), 0) # 0
               THEN [t |-> "bad", len |-> n]
               ELSE [t |-> "num", v |-> ParseNat(SubSeq(e, p, p + n - 1), 0), len |-> n] :
                   n \in {RunLen(e, p, Star(Digits))}})
    ELSE IF Ch(e, p) \in NameChars
    THEN Only({IF SubSeq(e, p, p + n - 1) = "True" THEN [t |-> "num", v |-> 1, len |-> n]
               ELSE IF SubSeq(e, p, p + n - 1) = "False" THEN [t |-> "num", v |-> 0, len |-> n]
               ELSE [t |-> "name", len |-> n] :
                   n \in {RunLen(e, p, Star(NameChars))}})
    ELSE IF p < Len(e) /\ SubSeq(e, p, p + 1) \in {"//", "**", "<<", ">>"}
    THEN [t |-> SubSeq(e, p, p + 1), len |-> 2]
    ELSE IF Ch(e, p) \in {"+", "-", "*", "%", "(", ")", "&", "|", "^", "~"}
    THEN [t |-> Ch(e, p), len |-> 1]
    ELSE [t |-> "bad", len |-> 1]
RECURSIVE Tokenize(_, _)
Tokenize(e, p) ==
    IF p > Len(e) THEN <<>>
    ELSE IF Ch(e, p) \in WhiteSpace THEN Tokenize(e, p + 1)
    ELSE Only({<<x>> \o Tokenize(e, p + x.len) : x \in {Lexeme(e, p)}})

\* Python's // and % on integers (the quotient is rounded down)
FloorDiv(a, b) == IF b > 0 THEN a \div b ELSE (0 - a) \div (0 - b)
FloorMod(a, b) == a - b * FloorDiv(a, b)

\* Python's bitwise operators on integers of any sign (two's complement
\* with an unbounded sign extension)
BitNot(a) == 0 - a - 1
RECURSIVE BitAnd(_, _)
BitAnd(a, b) ==
    IF a = 0 \/ b = 0 THEN 0
    ELSE IF a = -1 THEN b
    ELSE IF b = -1 THEN a
    ELSE 2 * BitAnd(a \div 2, b \div 2) + (a % 2) * (b % 2)
BitOr(a, b) == BitNot(BitAnd(BitNot(a), BitNot(b)))
BitXor(a, b) == BitOr(a, b) - BitAnd(a, b)
RECURSIVE Pow2(_)
Pow2(n) == IF n = 0 THEN 1 ELSE 2 * Pow2(n - 1)

\* The parser and evaluator of the expression grammar
\*   expr ::= factor (OP expr)*     with the binary operators OP, all of them
\*            left-associative, in the order of their precedence:
\*            |   ^   &   << >>   + -   * // %
\*   factor ::= ("+" | "-" | "~") factor | NUMBER | "(" expr ")"
\* on the tokens toks from position p. The result is [ok, v, p]: whether a
\* value was computed, the value, and the position after the expression.
\* A name, a division by zero, a negative shift count and a syntax error
\* give ok = FALSE.
Failed == [ok |-> FALSE, v |-> 0, p |-> 0]
TokAt(toks, p) == IF p <= Len(toks) THEN toks[p].t ELSE "end"
BinaryOps == {"|", "^", "&", "<<", ">>", "+", "-", "*", "//", "%"}
Precedence(op) ==
    CASE op = "|" -> 1
      [] op = "^" -> 2
      [] op = "&" -> 3
      [] op \in {"<<", ">>"} -> 4
      [] op \in {"+", "-"} -> 5
      [] op \in {"*", "//", "%"} -> 6
\* the value of `a op b`: <<v>>, and <<>> when the operation raises
ApplyOp(op, a, b) ==
    CASE op = "|" -> <<BitOr(a, b)>>
      [] op = "^" -> <<BitXor(a, b)>>
      [] op = "&" -> <<BitAnd(a, b)>>
      [] op = "<<" -> IF b < 0 THEN <<>> ELSE <<a * Pow2(b)>>
      [] op = ">>" -> IF b < 0 THEN <<>> ELSE <<a \div Pow2(b)>>
      [] op = "+" -> <<a + b>>
      [] op = "-" -> <<a - b>>
      [] op = "*" -> <<a * b>>
      [] op = "//" -> IF b = 0 THEN <<>> ELSE <<FloorDiv(a, b)>>
      [] op = "%" -> IF b = 0 THEN <<>> ELSE <<FloorMod(a, b)>>
RECURSIVE ParseExpr(_, _, _)
RECURSIVE ParseRest(_, _, _)
RECURSIVE ParseFactor(_, _)
ParseFactor(toks, p) ==
    CASE TokAt(toks, p) = "num" -> [ok |-> TRUE, v |-> toks[p].v, p |-> p + 1]
      [] TokAt(toks, p) = "-" ->
            Only({IF r.ok THEN [r EXCEPT !.v = 0 - r.v] ELSE Failed :
                      r \in {ParseFactor(toks, p + 1)}})
      [] TokAt(toks, p) = "~" ->
            Only({IF r.ok THEN [r EXCEPT !.v = BitNot(r.v)] ELSE Failed :
                      r \in {ParseFactor(toks, p + 1)}})
      [] TokAt(toks, p) = "+" -> ParseFactor(toks, p + 1)
      [] TokAt(toks, p) = "(" ->
            Only({IF r.ok /\ TokAt(toks, r.p) = ")" THEN [r EXCEPT !.p = r.p + 1] ELSE Failed :
                      r \in {ParseExpr(toks, p + 1, 1)}})
      [] OTHER -> Failed
\* the operators of precedence min_prec or higher that follow the value left
ParseRest(toks, left, min_prec) ==
    IF TokAt(toks, left.p) \in BinaryOps /\ Precedence(TokAt(toks, left.p)) >= min_prec
    THEN Only({IF ~r.ok THEN Failed
               ELSE Only({IF v = <<>> THEN Failed
                          ELSE ParseRest(toks, [r EXCEPT !.v = v[1]], min_prec) :
                              v \in {ApplyOp(toks[left.p].t, left.v, r.v)}}) :
                   r \in {ParseExpr(toks, left.p + 1,
                                    Precedence(toks[left.p].t) + 1)}})
    ELSE left
ParseExpr(toks, p, min_prec) ==
    Only({IF r.ok THEN ParseRest(toks, r, min_prec) ELSE Failed :
              r \in {ParseFactor(toks, p)}})

\* An expression can reach the classes of the interpreter through the
\* attributes of a literal although the globals hold no builtins. This one
\* finds site.Quitter (the class of the interactive `exit`) among the
\* subclasses of object and calls an instance: the call raises
\* SystemExit(code).
ExitCodes == {"1", "7"}
QuitterCall(code) ==
    "[c for c in ().__class__.__base__.__subclasses__() if c.__name__==\"Quitter\"][0](\"\",\"\")("
    \o code \o ")"
\* eval(processed_expr) raises SystemExit: <<code>>, and <<>> if it does not
PyEvalExit(processed_expr) ==
    IF \E c \in ExitCodes : processed_expr = QuitterCall(c)
    THEN <<ParseInt(CHOOSE c \in ExitCodes : processed_expr = QuitterCall(c))>>
    ELSE <<>>

\* eval(processed_expr): the value of the whole expression; an exception of
\* the evaluation gives ok = FALSE
PyEval(processed_expr) ==
    IF PyEvalExit(processed_expr) # <<>> THEN Failed
    ELSE Only({Only({IF r.ok /\ r.p = Len(toks) + 1 THEN r ELSE Failed :
                         r \in {ParseExpr(toks, 1, 1)}}) :
                   toks \in {Tokenize(processed_expr, 1)}})

\* the SystemExit that leaves safe_eval_batch_math(expression), <<>> if none:
\* SystemExit is not an Exception, and no handler of the function catches it
safe_eval_exit(expression) ==
    IF Strip(expression) = "" THEN <<>>
    ELSE PyEvalExit(BatchToPython(Strip(expression)))

\* safe_eval_batch_math(expression): <<n>> for the integer n, <<>> for None
safe_eval_batch_math(expression) ==
    IF Strip(expression) = "" THEN <<>>
    ELSE Only({IF r.ok THEN <<r.v>> ELSE <<>> :
                   r \in {PyEval(BatchToPython(Strip(expression)))}})

----------------------------------------------------------------------------
(* The Scramble Reverser: reverse_scrambling *)

\* ^\s*set\s+/a\s+ans\s*=\s*(.*?)\s*\n\s*goto\s+%ans%\s*\n\s*:(\d+)\s*$
\* with re.IGNORECASE | re.MULTILINE       group 1: item 11, group 2: item 22
RE_SCRAMBLE_JUMP ==
    << <<BolM, SStar, WordI("set"), SPlus, WordI("/a"), SPlus, WordI("ans"), SStar,
         Word("="), SStar, DotLazy, SStar, Word("\n"),
         SStar, WordI("goto"), SPlus, WordI("%ans%"), SStar, Word("\n"),
         SStar, Word(":"), Plus(Digits), SStar, EolM>> >>

\* ^:(\d+)\s*\n([\s\S]*?)\n\s*set\s+/a\s+ans=[\s\S]*?\n\s*goto\s+%ans%\s*$
\* with re.IGNORECASE | re.MULTILINE       group 1: item 3, group 2: item 6
RE_SCRAMBLED_BLOCK ==
    << <<BolM, Word(":"), Plus(Digits), SStar, Word("\n"), AllLazy, Word("\n"),
         SStar, WordI("set"), SPlus, WordI("/a"), SPlus, WordI("ans="), AllLazy, Word("\n"),
         SStar, WordI("goto"), SPlus, WordI("%ans%"), SStar, EolM>> >>

\* line.strip().lower() of the boundary scan
IsEofMarker(line) == StrLower(Strip(line)) \in {"goto :eof", "exit /b 0"}
IsGotoAns(line) == StrLower(Strip(line)) = "goto %ans%"

\* (mutant: the line before the marker is not looked at)
FindEofIndex_AnyMarker(ls) ==
    Only({IF S = {} THEN -1 ELSE Least(S) - 1 :
              S \in {{i \in 1..Len(ls) : IsEofMarker(ls[i])}}})

\* the 0-based index of the first marker line that follows a `goto %ans%`
\* line, -1 if there is none
FindEofIndex(ls) ==
    Only({IF S = {} THEN -1 ELSE Least(S) - 1 :
              S \in {{i \in 2..Len(ls) : IsEofMarker(ls[i]) /\ IsGotoAns(ls[i - 1])}}})

\* lines[:eof_index] and lines[eof_index + 1:]
main_code_lines(ls, eof) == SubSeq(ls, 1, eof)
scrambled_part_lines(ls, eof) == SubSeq(ls, eof + 2, Len(ls))

\* (mutant: the last non-empty line of the block body is taken as the code)
original_code_LastLine(group2) ==
    LET potential_code_lines ==
            SelectSeq(SplitLines(Strip(group2)), LAMBDA ln : Strip(ln) # "")
    IN  IF potential_code_lines = <<>> THEN <<>>
        ELSE <<Strip(potential_code_lines[Len(potential_code_lines)])>>

\* the code of a block: its first non-empty line, stripped; <<>> if the body
\* has no non-empty line
original_code(group2) ==
    LET potential_code_lines ==
            SelectSeq(SplitLines(Strip(group2)), LAMBDA ln : Strip(ln) # "")
    IN  IF potential_code_lines = <<>> THEN <<>>
        ELSE <<Strip(potential_code_lines[1])>>

\* label_to_code[label] = original_code
MapPut(map, key, val) ==
    [k \in DOMAIN map \cup {key} |-> IF k = key THEN val ELSE map[k]]

\* (mutant: the sign of the result is dropped)
target_label_str_Unsigned(math_expression) ==
    Only({IF r = <<>> THEN <<>> ELSE <<IntToStr(IF r[1] < 0 THEN 0 - r[1] ELSE r[1])>> :
              r \in {safe_eval_batch_math(math_expression)}})

\* str(target_label_int) if target_label_int is not None else None
target_label_str(math_expression) ==
    Only({IF r = <<>> THEN <<>> ELSE <<IntToStr(r[1])>> :
              r \in {safe_eval_batch_math(math_expression)}})

----------------------------------------------------------------------------
(* The Scramble Reverser run *)

MaxSites == 2    \* the number of dispatch sites of a round-trip input

\* An input is described by the items of its main section (a dispatch site of
\* three lines, or one ordinary line), the lines that end the main section,
\* the boundary marker and the blocks of the tail.
PlainItem(text) == [site |-> FALSE, fails |-> FALSE, label |-> 0, lines |-> <<text>>]
SiteItem(label, fails, site_lines) ==
    [site |-> TRUE, fails |-> fails, label |-> label, lines |-> site_lines]
BlockOf(label, block_lines) ==
    [label |-> label, stmt |-> "e" \o IntToStr(label), lines |-> block_lines]

\* an expression that evaluates to the label
ExprOf(shape, label) ==
    CASE shape = "plain" -> IntToStr(label)
      [] shape = "sum" -> IntToStr(label - 1) \o " + 1"
      [] shape = "div" -> IntToStr(2 * label) \o "/2"

\* the three lines of a dispatch site
Layouts == {"tight", "loose"}
\* how the sites of a round-trip input are written: expression and layout
SiteStyles == {<<"plain", "tight">>, <<"sum", "tight">>, <<"div", "loose">>}
SiteLines(layout, expr, ret) ==
    IF layout = "tight"
    THEN <<"set /a ans=" \o expr, "goto %ans%", ":" \o ret>>
    ELSE <<"  SET  /A ans = " \o expr \o " ", "\tGoTo %ANS%", " :" \o ret \o " ">>

\* the lines of a tail block for the label
BlockLines(shape, label) ==
    CASE shape = "plain" ->
             <<":" \o IntToStr(label), "e" \o IntToStr(label), "set /a ans=9", "goto %ans%">>
      [] shape = "junk" ->
             <<":" \o IntToStr(label) \o " ", "", "  e" \o IntToStr(label) \o " ", "junk",
               "  SET /A ANS=9", "GOTO  %ans% ">>
      [] shape = "broken" ->
             <<":" \o IntToStr(label), "e" \o IntToStr(label), "set /a ans =9", "goto %ans%">>
      [] shape = "blank" ->
             <<":" \o IntToStr(label), " ", "set /a ans=9", "goto %ans%">>

RECURSIVE Flatten(_)
Flatten(seqs) == IF seqs = <<>> THEN <<>> ELSE seqs[1] \o Flatten(Tail(seqs))

\* the permutations of 1..n
Perms(n) == {f \in [1..n -> 1..n] : \A i, j \in 1..n : f[i] = f[j] => i = j}

\* n sites whose expressions evaluate to the labels f[1], .., f[n], with or
\* without ordinary lines around them, and one block per label
RoundTripInputsOf(n) ==
    {[items |-> Flatten([k \in 1..n |->
                    (IF plain THEN <<PlainItem("k" \o IntToStr(k))>> ELSE <<>>)
                    \o <<SiteItem(f[k], FALSE,
                                  SiteLines(style[2], ExprOf(style[1], f[k]),
                                            IntToStr(n + k)))>>])
                 \o (IF plain THEN <<PlainItem("kz")>> ELSE <<>>),
      ending |-> IF style[2] = "tight" THEN <<"goto %ans%">>
                 ELSE <<"set /a ans=9", "goto %ans%">>,
      marker |-> IF plain THEN <<"goto :eof">> ELSE <<" EXIT /B 0">>,
      blocks |-> [k \in 1..n |->
                    CASE tail = "asc" -> BlockOf(k, BlockLines("plain", k))
                      [] tail = "desc" -> BlockOf(n + 1 - k, BlockLines("plain", n + 1 - k))
                      [] tail = "junk" -> BlockOf(k, BlockLines("junk", k))],
      valid |-> TRUE] :
        f \in Perms(n), style \in SiteStyles, plain \in BOOLEAN,
        tail \in {"asc", "desc", "junk"}}
RoundTripInputs == UNION {RoundTripInputsOf(n) : n \in 1..MaxSites}

\* a site that resolves to block 1, and a site whose expression does not
\* evaluate (a name, a division by zero, an empty expression, an invalid
\* literal) or evaluates to a label without block; the tail has the blocks 1
\* and 2, no block, or only blocks that are not well formed
FailingInputs ==
    {[items |-> <<PlainItem("k1"), SiteItem(1, FALSE, SiteLines("tight", "1", "3")),
                  PlainItem("k2"), SiteItem(0, TRUE, SiteLines(layout, expr, "4")),
                  PlainItem("kz")>>,
      ending |-> <<"set /a ans=9", "goto %ans%">>,
      marker |-> <<"goto :eof">>,
      blocks |-> CASE tail = "two" -> <<BlockOf(1, BlockLines("plain", 1)),
                                        BlockOf(2, BlockLines("plain", 2))>>
                   [] tail = "none" -> <<>>
                   [] tail = "broken" -> <<BlockOf(1, BlockLines("broken", 1))>>
                   [] tail = "blank" -> <<BlockOf(1, BlockLines("blank", 1))>>,
      valid |-> tail = "two"] :
        expr \in {"q", "1/0", "", "010", "7"}, layout \in Layouts,
        tail \in {"two", "none", "broken", "blank"}}

\* ordinary lines that the site pattern matches across line ends: the
\* expression, or the words of the `set` line, on lines of their own
SplitLineInputs ==
    {[items |-> <<PlainItem("k1")>> \o [i \in 1..Len(ls) |-> PlainItem(ls[i])]
                 \o <<PlainItem("kz")>>,
      ending |-> <<"goto %ans%">>,
      marker |-> <<"goto :eof">>,
      blocks |-> <<BlockOf(5, BlockLines("plain", 5))>>,
      valid |-> TRUE] :
        ls \in {<<"set /a ans=", "5", "goto %ans%", ":3">>,
                <<"set", "/a ans=5", "goto", "%ans%", ":3">>}}

\* inputs without boundary: no marker line, or a marker line that does not
\* follow a `goto %ans%` line
NoBoundaryInputs ==
    {[items |-> <<PlainItem("k1"), SiteItem(1, FALSE, SiteLines("tight", "1", "3"))>>,
      ending |-> e,
      marker |-> m,
      blocks |-> <<BlockOf(1, BlockLines("plain", 1))>>,
      valid |-> TRUE] :
        e \in {<<"goto %ans%">>, <<>>}, m \in {<<"goto :eof">>, <<>>, <<"exit">>}}
    \ {[items |-> <<PlainItem("k1"), SiteItem(1, FALSE, SiteLines("tight", "1", "3"))>>,
        ending |-> <<"goto %ans%">>,
        marker |-> <<"goto :eof">>,
        blocks |-> <<BlockOf(1, BlockLines("plain", 1))>>,
        valid |-> TRUE]}

\* a site that resolves to block 1, and a site whose expression raises
\* SystemExit when it is evaluated
EscapingInputs ==
    {[items |-> <<PlainItem("k1"), SiteItem(1, FALSE, SiteLines("tight", "1", "3")),
                  PlainItem("k2"), SiteItem(0, TRUE, SiteLines(layout, QuitterCall(c), "4")),
                  PlainItem("kz")>>,
      ending |-> <<"set /a ans=9", "goto %ans%">>,
      marker |-> <<"goto :eof">>,
      blocks |-> <<BlockOf(1, BlockLines("plain", 1))>>,
      valid |-> TRUE] :
        c \in ExitCodes, layout \in Layouts}

\* a block whose label is written as the text (`007` for :007)
BlockOfText(text) ==
    [label |-> ParseNat(text, 0), text |-> text, stmt |-> "e" \o text,
     lines |-> <<":" \o text, "e" \o text, "set /a ans=9", "goto %ans%">>]
\* the expressions of the site of a label input, each with its value
LabelExprs ==
    {<<"7", 7>>, <<"3 + 4", 7>>, <<"0x7", 7>>, <<"-7", -7>>, <<"0 - 3", -3>>,
     <<"3", 3>>, <<"0", 0>>, <<"4 - 4", 0>>}
\* the label texts of the blocks of the tail of a label input
LabelTails ==
    {<<"7">>, <<"007">>, <<"007", "7">>, <<"7", "007">>, <<"3", "07">>, <<"0">>,
     <<"00">>, <<"00", "3">>}
\* a site whose expression evaluates to a positive, zero or negative number,
\* and blocks whose labels are written with and without leading zeros
LabelInputs ==
    {[items |-> <<PlainItem("k1"),
                  SiteItem(e[2], \A i \in 1..Len(tail) : tail[i] # IntToStr(e[2]),
                           SiteLines(layout, e[1], "8")),
                  PlainItem("kz")>>,
      ending |-> <<"set /a ans=9", "goto %ans%">>,
      marker |-> <<"goto :eof">>,
      blocks |-> [i \in 1..Len(tail) |-> BlockOfText(tail[i])],
      valid |-> FALSE] :
        e \in LabelExprs, tail \in LabelTails, layout \in {"tight"}}

MaxTailBlocks == 2    \* the number of blocks of the tail of a tail input

\* a block of a tail input, the i-th of its tail: its body is a statement
\* among blank and junk lines ("stmt"), or one blank line ("blank")
BodyKinds == {"stmt", "blank"}
TailBlock(label, kind, i) ==
    [label |-> label,
     stmt |-> IF kind = "stmt" THEN "s" \o IntToStr(i) ELSE "",
     lines |-> <<":" \o IntToStr(label)>>
               \o (IF kind = "blank" THEN <<" ">>
                   ELSE <<"", "  s" \o IntToStr(i) \o " ", "junk">>)
               \o <<"set /a ans=9", "goto %ans%">>]
\* a site for the label 1, and a tail of blocks for the labels 1 and 2 of
\* every kind of body, with and without a repeated label
TailInputs ==
    {[items |-> <<PlainItem("k1"),
                  SiteItem(1, \A i \in DOMAIN t : t[i][1] # 1 \/ t[i][2] # "stmt",
                           SiteLines("tight", "1", "8")),
                  PlainItem("kz")>>,
      ending |-> <<"set /a ans=9", "goto %ans%">>,
      marker |-> <<"goto :eof">>,
      blocks |-> [i \in DOMAIN t |-> TailBlock(t[i][1], t[i][2], i)],
      valid |-> FALSE] :
        t \in UNION {[1..n -> {1, 2} \X BodyKinds] : n \in 1..MaxTailBlocks}}

\* a site that resolves to block 1 between ordinary lines, with or without a
\* marker line at the start of the main section and after the block; the
\* main section ends with a `goto %ans%` line or not quite, and the marker
\* is one of the two marker lines or not quite
BoundaryInputs ==
    {[items |-> early \o <<PlainItem("k1"), SiteItem(1, FALSE, SiteLines("tight", "1", "3")),
                           PlainItem("kz")>>,
      ending |-> e,
      marker |-> m,
      blocks |-> <<BlockOf(1, BlockLines("plain", 1) \o late)>>,
      valid |-> TRUE] :
        early \in {<<>>, <<PlainItem("goto :eof")>>, <<PlainItem("EXIT /B 0")>>},
        e \in {<<"goto %ans%">>, <<" GOTO %ANS%\t">>, <<"goto %ans%", "">>, <<"goto  %ans%">>,
               <<>>},
        m \in {<<"goto :eof">>, <<" Exit /B 0 ">>, <<"goto:eof">>, <<"exit /b">>, <<>>},
        late \in {<<>>, <<"goto :eof">>}}

ScrambleInputs ==
    RoundTripInputs \cup FailingInputs \cup SplitLineInputs \cup NoBoundaryInputs
    \cup EscapingInputs \cup LabelInputs \cup TailInputs \cup BoundaryInputs

\* the main section of an input, and all its lines
MainLinesOf(in) == Flatten([k \in 1..Len(in.items) |-> in.items[k].lines]) \o in.ending
LinesOf(in) ==
    MainLinesOf(in) \o in.marker \o Flatten([k \in 1..Len(in.blocks) |-> in.blocks[k].lines])

\* the Character Resolver is not running
RIdle ==
    /\ lines = <<>> /\ payload = [pre |-> "", tok |-> "", post |-> ""] /\ rpc = "idle"
    /\ ei = 1 /\ settings = InitialSettings /\ li = 1 /\ processed_line = ""
    /\ last_line = <<>> /\ passes = 0 /\ warnings = <<>> /\ out = <<>>

SInit ==
    /\ s_in \in ScrambleInputs
    /\ s_lines = LinesOf(s_in)
    /\ s_pc = "scan"
    /\ eof_index = -1
    /\ blocks = <<>> /\ bi = 1
    /\ label_to_code = EmptyMap
    /\ main_text = ""
    /\ jumps = <<>> /\ ji = 1
    /\ reconstructed = <<>>
    /\ last_pos = 0
    /\ s_out = <<>>
    /\ raised = <<>>
    /\ RIdle /\ CIdle /\ PIdle /\ HIdle /\ EIdle

\* the boundary scan finds no marker: the lines are returned as they are
NoBoundary ==
    /\ s_pc = "scan" /\ FindEofIndex(s_lines) = -1
    /\ s_out' = s_lines
    /\ s_pc' = "done"
    /\ UNCHANGED <<raised, s_in, s_lines, eof_index, blocks, bi, label_to_code, main_text, jumps,
                   ji, reconstructed, last_pos>>
    /\ UNCHANGED <<rvars, cvars, pvars, hvars, evars>>

\* the boundary scan finds the marker: the lines are split and the blocks of
\* the tail text are matched
Boundary ==
    /\ s_pc = "scan" /\ FindEofIndex(s_lines) # -1
    /\ eof_index' = FindEofIndex(s_lines)
    /\ blocks' = FindIter(RE_SCRAMBLED_BLOCK,
                          Join("\n", scrambled_part_lines(s_lines, eof_index')))
    /\ bi' = 1
    /\ label_to_code' = EmptyMap
    /\ s_pc' = "parse"
    /\ UNCHANGED <<raised, s_in, s_lines, main_text, jumps, ji, reconstructed, last_pos, s_out>>
    /\ UNCHANGED <<rvars, cvars, pvars, hvars, evars>>

\* one iteration of the loop over the block matches
ParseBlock ==
    /\ s_pc = "parse" /\ bi <= Len(blocks)
    /\ LET scrambled_part_text == Join("\n", scrambled_part_lines(s_lines, eof_index))
           label == MGroup(blocks[bi], scrambled_part_text, 3, 3)
           code == original_code(MGroup(blocks[bi], scrambled_part_text, 6, 6))
       IN  label_to_code' = IF code = <<>> THEN label_to_code
                            ELSE MapPut(label_to_code, label, code[1])
    /\ bi' = bi + 1
    /\ UNCHANGED <<raised, s_in, s_lines, s_pc, eof_index, blocks, main_text, jumps, ji,
                   reconstructed, last_pos, s_out>>
    /\ UNCHANGED <<rvars, cvars, pvars, hvars, evars>>

\* no block was parsed: the main section is returned as it is
ParseNothing ==
    /\ s_pc = "parse" /\ bi > Len(blocks) /\ DOMAIN label_to_code = {}
    /\ s_out' = main_code_lines(s_lines, eof_index)
    /\ s_pc' = "done"
    /\ UNCHANGED <<raised, s_in, s_lines, eof_index, blocks, bi, label_to_code, main_text, jumps,
                   ji, reconstructed, last_pos>>
    /\ UNCHANGED <<rvars, cvars, pvars, hvars, evars>>

\* the blocks are parsed: the jumps of the main text are matched
ParseDone ==
    /\ s_pc = "parse" /\ bi > Len(blocks) /\ DOMAIN label_to_code # {}
    /\ main_text' = Join("\n", main_code_lines(s_lines, eof_index))
    /\ jumps' = FindIter(RE_SCRAMBLE_JUMP, main_text')
    /\ ji' = 1
    /\ reconstructed' = <<>>
    /\ last_pos' = 0
    /\ s_pc' = "rewrite"
    /\ UNCHANGED <<raised, s_in, s_lines, eof_index, blocks, bi, label_to_code, s_out>>
    /\ UNCHANGED <<rvars, cvars, pvars, hvars, evars>>

\* one iteration of the loop over the jump matches: the text before the
\* jump, then the code of its target if the expression evaluates to a label
\* of the map, and nothing otherwise
RewriteJump ==
    /\ s_pc = "rewrite" /\ ji <= Len(jumps)
    /\ safe_eval_exit(Strip(MGroup(jumps[ji], main_text, 11, 11))) = <<>>
    /\ LET math_expression == Strip(MGroup(jumps[ji], main_text, 11, 11))
           target == target_label_str(math_expression)
           before == SubSeq(main_text, last_pos + 1, MStart(jumps[ji]) - 1)
       IN  reconstructed' =
               IF target # <<>> /\ target[1] \in DOMAIN label_to_code
               THEN reconstructed \o <<before, label_to_code[target[1]]>>
               ELSE reconstructed \o <<before>>
    /\ last_pos' = MEnd(jumps[ji]) - 1
    /\ ji' = ji + 1
    /\ UNCHANGED <<raised, s_in, s_lines, s_pc, eof_index, blocks, bi, label_to_code, main_text,
                   jumps, s_out>>
    /\ UNCHANGED <<rvars, cvars, pvars, hvars, evars>>

\* the evaluation of the expression of a jump raises SystemExit: nothing in
\* reverse_scrambling catches it, and the function is left
RewriteRaises ==
    /\ s_pc = "rewrite" /\ ji <= Len(jumps)
    /\ safe_eval_exit(Strip(MGroup(jumps[ji], main_text, 11, 11))) # <<>>
    /\ raised' = safe_eval_exit(Strip(MGroup(jumps[ji], main_text, 11, 11)))
    /\ s_pc' = "raised"
    /\ UNCHANGED <<s_in, s_lines, eof_index, blocks, bi, label_to_code, main_text, jumps,
                   ji, reconstructed, last_pos, s_out>>
    /\ UNCHANGED <<rvars, cvars, pvars, hvars, evars>>

\* the loop is over: the rest of the text, and the lines are returned
RewriteDone ==
    /\ s_pc = "rewrite" /\ ji > Len(jumps)
    /\ reconstructed' = Append(reconstructed, SubSeq(main_text, last_pos + 1, Len(main_text)))
    /\ s_out' = SplitLines(Join("\n", reconstructed'))
    /\ s_pc' = "done"
    /\ UNCHANGED <<raised, s_in, s_lines, eof_index, blocks, bi, label_to_code, main_text, jumps,
                   ji, last_pos>>
    /\ UNCHANGED <<rvars, cvars, pvars, hvars, evars>>

SNext ==
    \/ NoBoundary \/ Boundary \/ ParseBlock \/ ParseNothing \/ ParseDone
    \/ RewriteJump \/ RewriteRaises \/ RewriteDone

SpecScramble == SInit /\ [][SNext]_vars

----------------------------------------------------------------------------
(* The Junk Filter and the Finalizer: remove_inserted_code, final_cleanup *)

\* The rule catalog, every rule compiled with re.IGNORECASE. A group with
\* alternatives, and an optional group, is written out as the alternatives
\* of the rule.
RE_JUNK_TO_REMOVE ==
    <<
      \*  1 (line 85)  ^\s*::Made by K\.Dot using SomalifuscatorV2
      << <<Bol, SStar, WordI("::Made by K.Dot using SomalifuscatorV2")>> >>,
      \*  2 (line 86)  ^\s*chcp 65001 > nul
      << <<Bol, SStar, WordI("chcp 65001 > nul")>> >>,
      \*  3 (line 87)  ^\s*set\s+[a-z]=[a-z]
      << <<Bol, SStar, WordI("set"), SPlus, One(Letters), WordI("="), One(Letters)>> >>,
      \*  4 (line 88)  ^\s*>nul 2>&1 && exit >nul 2>&1 \|\| cls
      << <<Bol, SStar, WordI(">nul 2>&1 && exit >nul 2>&1 || cls")>> >>,
      \*  5 (line 89)  ^\s*(goto\s+:eof|exit\s*/b\s*0)\s*$
      << <<Bol, SStar, WordI("goto"), SPlus, WordI(":eof"), SStar, Eol>>,
         <<Bol, SStar, WordI("exit"), SStar, WordI("/b"), SStar, WordI("0"), SStar, Eol>> >>,
      \*  6 (line 92)  ^\s*if defined redo goto :KDOTUP
      << <<Bol, SStar, WordI("if defined redo goto :KDOTUP")>> >>,
      \*  7 (line 93)  ^\s*set "redo=1"
      << <<Bol, SStar, WordI("set \"redo=1\"")>> >>,
      \*  8 (line 94)  ^\s*echo CreateObject\("Wscript\.Shell"\)\.Run "%~f0", 0, True > temp\.vbs
      << <<Bol, SStar,
            WordI("echo CreateObject(\"Wscript.Shell\").Run \"%~f0\", 0, True > temp.vbs")>> >>,
      \*  9 (line 95)  ^\s*cscript //nologo temp\.vbs
      << <<Bol, SStar, WordI("cscript //nologo temp.vbs")>> >>,
      \* 10 (line 96)  ^\s*del temp\.vbs
      << <<Bol, SStar, WordI("del temp.vbs")>> >>,
      \* 11 (line 97)  ^\s*:KDOTUP
      << <<Bol, SStar, WordI(":KDOTUP")>> >>,
      \* 12 (line 100)  ^\s*echo @echo off >> kdot\w+\.bat
      << <<Bol, SStar, WordI("echo @echo off >> kdot"), Plus(WordChars), WordI(".bat")>> >>,
      \* 13 (line 101)  ^\s*call kdot\w+\.bat
      << <<Bol, SStar, WordI("call kdot"), Plus(WordChars), WordI(".bat")>> >>,
      \* 14 (line 102)  ^\s*echo %cmdcmdline% \| find /i "%~f0">nul \|\| exit /b 1
      << <<Bol, SStar, WordI("echo %cmdcmdline% | find /i \"%~f0\">nul || exit /b 1")>> >>,
      \* 15 (line 103)  ^\s*echo %logonserver% \| findstr /i "DADDYSERVER" >nul && exit
      << <<Bol, SStar,
            WordI("echo %logonserver% | findstr /i \"DADDYSERVER\" >nul && exit")>> >>,
      \* 16 (line 104)  ^\s*ping .* www\.google\.com .* \|\| exit
      << <<Bol, SStar, WordI("ping "), DotStar, WordI(" www.google.com "), DotStar,
            WordI(" || exit")>> >>,
      \* 17 (line 106)  ^\s*for /f "tokens=2 delims==" %%a in \(\'wmic computersystem get manufacturer /value\'\) do set manufacturer=%%a
      << <<Bol, SStar,
            WordI("for /f \"tokens=2 delims==\" %%a in ('wmic computersystem get manufacturer /value') do set manufacturer=%%a")>> >>,
      \* 18 (line 107)  ^\s*if "%manufacturer%"=="Microsoft Corporation" if "%model%"=="Virtual Machine" exit
      << <<Bol, SStar,
            WordI("if \"%manufacturer%\"==\"Microsoft Corporation\" if \"%model%\"==\"Virtual Machine\" exit")>> >>,
      \* 19 (line 108)  ^\s*if "%manufacturer%"=="VMware, Inc\." exit
      << <<Bol, SStar, WordI("if \"%manufacturer%\"==\"VMware, Inc.\" exit")>> >>,
      \* 20 (line 109)  ^\s*if "%model%"=="VirtualBox" exit
      << <<Bol, SStar, WordI("if \"%model%\"==\"VirtualBox\" exit")>> >>,
      \* 21 (line 110)  ^\s*powershell.*Get-WmiObject Win32_ComputerSystem.*Virtual.*taskkill
      << <<Bol, SStar, WordI("powershell"), DotStar,
            WordI("Get-WmiObject Win32_ComputerSystem"), DotStar, WordI("Virtual"),
            DotStar, WordI("taskkill")>> >>,
      \* 22 (line 111)  ^\s*powershell.*gcim Win32_PhysicalMemory.*sum /1gb -lt 4.*taskkill
      << <<Bol, SStar, WordI("powershell"), DotStar, WordI("gcim Win32_PhysicalMemory"),
            DotStar, WordI("sum /1gb -lt 4"), DotStar, WordI("taskkill")>> >>,
      \* 23 (line 113)  ^\s*powershell(\.exe)?\s+(-NoLogo|-NoP|-NonI|-W Hidden|-EP Bypass|-EncodedCommand|-Command)\s+
      << <<Bol, SStar, WordI("powershell.exe"), SPlus, WordI("-NoLogo"), SPlus>>,
         <<Bol, SStar, WordI("powershell.exe"), SPlus, WordI("-NoP"), SPlus>>,
         <<Bol, SStar, WordI("powershell.exe"), SPlus, WordI("-NonI"), SPlus>>,
         <<Bol, SStar, WordI("powershell.exe"), SPlus, WordI("-W Hidden"), SPlus>>,
         <<Bol, SStar, WordI("powershell.exe"), SPlus, WordI("-EP Bypass"), SPlus>>,
         <<Bol, SStar, WordI("powershell.exe"), SPlus, WordI("-EncodedCommand"), SPlus>>,
         <<Bol, SStar, WordI("powershell.exe"), SPlus, WordI("-Command"), SPlus>>,
         <<Bol, SStar, WordI("powershell"), SPlus, WordI("-NoLogo"), SPlus>>,
         <<Bol, SStar, WordI("powershell"), SPlus, WordI("-NoP"), SPlus>>,
         <<Bol, SStar, WordI("powershell"), SPlus, WordI("-NonI"), SPlus>>,
         <<Bol, SStar, WordI("powershell"), SPlus, WordI("-W Hidden"), SPlus>>,
         <<Bol, SStar, WordI("powershell"), SPlus, WordI("-EP Bypass"), SPlus>>,
         <<Bol, SStar, WordI("powershell"), SPlus, WordI("-EncodedCommand"), SPlus>>,
         <<Bol, SStar, WordI("powershell"), SPlus, WordI("-Command"), SPlus>> >>,
      \* 24 (line 114)  ^\s*wmic\s+
      << <<Bol, SStar, WordI("wmic"), SPlus>> >>,
      \* 25 (line 117)  ^\s*doskey\s+\w+=.*
      << <<Bol, SStar, WordI("doskey"), SPlus, Plus(WordChars), WordI("="), DotStar>> >>,
      \* 26 (line 119)  ^\s*mshta\s*$
      << <<Bol, SStar, WordI("mshta"), SStar, Eol>> >>,
      \* 27 (line 120)  ^\s*timeout \d+ >nul\s*$
      << <<Bol, SStar, WordI("timeout "), Plus(Digits), WordI(" >nul"), SStar, Eol>> >>,
      \* 28 (line 121)  ^\s*echo %random% >nul\s*$
      << <<Bol, SStar, WordI("echo %random% >nul"), SStar, Eol>> >>,
      \* 29 (line 122)  ^\s*rundll32\s*$
      << <<Bol, SStar, WordI("rundll32"), SStar, Eol>> >>,
      \* 30 (line 123)  ^\s*cd %cd%\s*$
      << <<Bol, SStar, WordI("cd %cd%"), SStar, Eol>> >>,
      \* 31 (line 124)  ^\s*wscript /b\s*$
      << <<Bol, SStar, WordI("wscript /b"), SStar, Eol>> >>,
      \* 32 (line 125)  ^\s*doskey /listsize=0\s*$
      << <<Bol, SStar, WordI("doskey /listsize=0"), SStar, Eol>> >>,
      \* 33 (line 126)  ^\s*powershell(\.exe)?\s+(-nop)?\s+(-c)?\s+"Write-Host -NoNewLine \$null"\s*$
      << <<Bol, SStar, WordI("powershell.exe"), SPlus, WordI("-nop"), SPlus, WordI("-c"),
            SPlus, WordI("\"Write-Host -NoNewLine $null\""), SStar, Eol>>,
         <<Bol, SStar, WordI("powershell"), SPlus, WordI("-nop"), SPlus, WordI("-c"),
            SPlus, WordI("\"Write-Host -NoNewLine $null\""), SStar, Eol>>,
         <<Bol, SStar, WordI("powershell.exe"), SPlus, SPlus, WordI("-c"), SPlus,
            WordI("\"Write-Host -NoNewLine $null\""), SStar, Eol>>,
         <<Bol, SStar, WordI("powershell"), SPlus, SPlus, WordI("-c"), SPlus,
            WordI("\"Write-Host -NoNewLine $null\""), SStar, Eol>>,
         <<Bol, SStar, WordI("powershell.exe"), SPlus, WordI("-nop"), SPlus, SPlus,
            WordI("\"Write-Host -NoNewLine $null\""), SStar, Eol>>,
         <<Bol, SStar, WordI("powershell"), SPlus, WordI("-nop"), SPlus, SPlus,
            WordI("\"Write-Host -NoNewLine $null\""), SStar, Eol>>,
         <<Bol, SStar, WordI("powershell.exe"), SPlus, SPlus, SPlus,
            WordI("\"Write-Host -NoNewLine $null\""), SStar, Eol>>,
         <<Bol, SStar, WordI("powershell"), SPlus, SPlus, SPlus,
            WordI("\"Write-Host -NoNewLine $null\""), SStar, Eol>> >>,
      \* 34 (line 128)  ^\s*for /l %%\w in \(\d+, \d+, \d+\) do \(.*\)
      << <<Bol, SStar, WordI("for /l %%"), One(WordChars), WordI(" in ("), Plus(Digits),
            WordI(", "), Plus(Digits), WordI(", "), Plus(Digits), WordI(") do ("),
            DotStar, WordI(")")>> >>,
      \* 35 (line 130)  ^\s*if %random% equ \d+ \(.*\) else \(.*\)
      << <<Bol, SStar, WordI("if %random% equ "), Plus(Digits), WordI(" ("), DotStar,
            WordI(") else ("), DotStar, WordI(")")>> >>,
      \* 36 (line 131)  ^\s*if not 0 neq 0 \(.*\) else \(.*\)
      << <<Bol, SStar, WordI("if not 0 neq 0 ("), DotStar, WordI(") else ("), DotStar,
            WordI(")")>> >>,
      \* 37 (line 132)  ^\s*if exist C:\\Windows\\System32 \(.*\) else \(.*\)
      << <<Bol, SStar, WordI("if exist C:\\Windows\\System32 ("), DotStar,
            WordI(") else ("), DotStar, WordI(")")>> >>,
      \* 38 (line 133)  ^\s*if not %cd% == %cd% \(.*\) else \(.*\)
      << <<Bol, SStar, WordI("if not %cd% == %cd% ("), DotStar, WordI(") else ("),
            DotStar, WordI(")")>> >>,
      \* 39 (line 134)  ^\s*if 0 equ 0 \(.*\) else \(.*\)
      << <<Bol, SStar, WordI("if 0 equ 0 ("), DotStar, WordI(") else ("), DotStar,
            WordI(")")>> >>,
      \* 40 (line 135)  ^\s*if exist C:\\Windows\\System3\s*\(.*\) else \(.*\)
      << <<Bol, SStar, WordI("if exist C:\\Windows\\System3"), SStar, WordI("("),
            DotStar, WordI(") else ("), DotStar, WordI(")")>> >>,
      \* 41 (line 136)  ^\s*if %cd% == %cd% \(.*\) else \(.*\)
      << <<Bol, SStar, WordI("if %cd% == %cd% ("), DotStar, WordI(") else ("), DotStar,
            WordI(")")>> >>,
      \* 42 (line 137)  ^\s*if chcp leq 1 \(.*\) else \(.*\)
      << <<Bol, SStar, WordI("if chcp leq 1 ("), DotStar, WordI(") else ("), DotStar,
            WordI(")")>> >>,
      \* 43 (line 138)  ^\s*if %CD% == %__CD__% \(.*\) else \(.*\)
      << <<Bol, SStar, WordI("if %CD% == %__CD__% ("), DotStar, WordI(") else ("),
            DotStar, WordI(")")>> >>,
      \* 44 (line 140)  ^\s*call \w+\.(exe|dll)\s*(>nul)?\s*(2>nul)?
      << <<Bol, SStar, WordI("call "), Plus(WordChars), WordI(".exe"), SStar,
            WordI(">nul"), SStar, WordI("2>nul")>>,
         <<Bol, SStar, WordI("call "), Plus(WordChars), WordI(".dll"), SStar,
            WordI(">nul"), SStar, WordI("2>nul")>>,
         <<Bol, SStar, WordI("call "), Plus(WordChars), WordI(".exe"), SStar, SStar,
            WordI("2>nul")>>,
         <<Bol, SStar, WordI("call "), Plus(WordChars), WordI(".dll"), SStar, SStar,
            WordI("2>nul")>>,
         <<Bol, SStar, WordI("call "), Plus(WordChars), WordI(".exe"), SStar,
            WordI(">nul"), SStar>>,
         <<Bol, SStar, WordI("call "), Plus(WordChars), WordI(".dll"), SStar,
            WordI(">nul"), SStar>>,
         <<Bol, SStar, WordI("call "), Plus(WordChars), WordI(".exe"), SStar, SStar>>,
         <<Bol, SStar, WordI("call "), Plus(WordChars), WordI(".dll"), SStar, SStar>> >>,
      \* 45 (line 141)  ^\s*echo \w+\.(exe|dll)\s*(>nul)?\s*(2>nul)?
      << <<Bol, SStar, WordI("echo "), Plus(WordChars), WordI(".exe"), SStar,
            WordI(">nul"), SStar, WordI("2>nul")>>,
         <<Bol, SStar, WordI("echo "), Plus(WordChars), WordI(".dll"), SStar,
            WordI(">nul"), SStar, WordI("2>nul")>>,
         <<Bol, SStar, WordI("echo "), Plus(WordChars), WordI(".exe"), SStar, SStar,
            WordI("2>nul")>>,
         <<Bol, SStar, WordI("echo "), Plus(WordChars), WordI(".dll"), SStar, SStar,
            WordI("2>nul")>>,
         <<Bol, SStar, WordI("echo "), Plus(WordChars), WordI(".exe"), SStar,
            WordI(">nul"), SStar>>,
         <<Bol, SStar, WordI("echo "), Plus(WordChars), WordI(".dll"), SStar,
            WordI(">nul"), SStar>>,
         <<Bol, SStar, WordI("echo "), Plus(WordChars), WordI(".exe"), SStar, SStar>>,
         <<Bol, SStar, WordI("echo "), Plus(WordChars), WordI(".dll"), SStar, SStar>> >>,
      \* 46 (line 142)  ^\s*forfiles /p %cd% /m \w+\.(exe|dll) /c \'cmd /c start @file\'\s*(>nul)?\s*(2>nul)?
      << <<Bol, SStar, WordI("forfiles /p %cd% /m "), Plus(WordChars),
            WordI(".exe /c 'cmd /c start @file'"), SStar, WordI(">nul"), SStar,
            WordI("2>nul")>>,
         <<Bol, SStar, WordI("forfiles /p %cd% /m "), Plus(WordChars),
            WordI(".dll /c 'cmd /c start @file'"), SStar, WordI(">nul"), SStar,
            WordI("2>nul")>>,
         <<Bol, SStar, WordI("forfiles /p %cd% /m "), Plus(WordChars),
            WordI(".exe /c 'cmd /c start @file'"), SStar, SStar, WordI("2>nul")>>,
         <<Bol, SStar, WordI("forfiles /p %cd% /m "), Plus(WordChars),
            WordI(".dll /c 'cmd /c start @file'"), SStar, SStar, WordI("2>nul")>>,
         <<Bol, SStar, WordI("forfiles /p %cd% /m "), Plus(WordChars),
            WordI(".exe /c 'cmd /c start @file'"), SStar, WordI(">nul"), SStar>>,
         <<Bol, SStar, WordI("forfiles /p %cd% /m "), Plus(WordChars),
            WordI(".dll /c 'cmd /c start @file'"), SStar, WordI(">nul"), SStar>>,
         <<Bol, SStar, WordI("forfiles /p %cd% /m "), Plus(WordChars),
            WordI(".exe /c 'cmd /c start @file'"), SStar, SStar>>,
         <<Bol, SStar, WordI("forfiles /p %cd% /m "), Plus(WordChars),
            WordI(".dll /c 'cmd /c start @file'"), SStar, SStar>> >>,
      \* 47 (line 147)  ^\s*rem ANTICHANGES MARKER
      << <<Bol, SStar, WordI("rem ANTICHANGES MARKER")>> >>,
      \* 48 (line 148)  ^\s*rem DEADCODE MARKER
      << <<Bol, SStar, WordI("rem DEADCODE MARKER")>> >>
    >>

\* pattern.search(line) finds a match
RuleMatches(pattern, line) == Search(pattern, line).alt # 0

\* any(pattern.search(line) for pattern in catalog): the number of the first
\* rule of the catalog that matches the line, 0 if no rule matches
FirstRule(catalog, line) ==
    Only({IF S = {} THEN 0 ELSE Least(S) :
              S \in {{k \in 1..Len(catalog) : RuleMatches(catalog[k], line)}}})

\* the list comprehension of remove_inserted_code from line i on: a line is
\* appended to the lines kept so far if no rule matches it
RECURSIVE KeepFrom(_, _, _, _)
KeepFrom(catalog, ls, i, cleaned_lines) ==
    IF i > Len(ls) THEN cleaned_lines
    ELSE IF FirstRule(catalog, ls[i]) = 0
    THEN KeepFrom(catalog, ls, i + 1, Append(cleaned_lines, ls[i]))
    ELSE KeepFrom(catalog, ls, i + 1, cleaned_lines)

\* (mutant: the lines that are kept are stripped)
remove_inserted_code_Stripped(ls) ==
    Only({[k \in 1..Len(kept) |-> Strip(kept[k])] :
              kept \in {KeepFrom(RE_JUNK_TO_REMOVE, ls, 1, <<>>)}})

remove_inserted_code(ls) == KeepFrom(RE_JUNK_TO_REMOVE, ls, 1, <<>>)

\* the loop of final_cleanup from line i on
RECURSIVE CleanFrom(_, _, _, _)
CleanFrom(ls, i, cleaned, last_line_empty) ==
    IF i > Len(ls) THEN cleaned
    ELSE IF Strip(ls[i]) # ""
    THEN CleanFrom(ls, i + 1, Append(cleaned, Strip(ls[i])), FALSE)
    ELSE IF ~last_line_empty
    THEN CleanFrom(ls, i + 1, Append(cleaned, ""), TRUE)
    ELSE CleanFrom(ls, i + 1, cleaned, last_line_empty)

\* (mutant: the trailing empty line is not removed)
final_cleanup_NoPop(ls) == CleanFrom(ls, 1, <<>>, TRUE)

\* final_cleanup(lines): the loop, then the trailing empty line is removed
final_cleanup(ls) ==
    Only({IF cleaned # <<>> /\ cleaned[Len(cleaned)] = ""
          THEN SubSeq(cleaned, 1, Len(cleaned) - 1) ELSE cleaned :
              cleaned \in {CleanFrom(ls, 1, <<>>, TRUE)}})

\* what write_text(data, newline='\r\n') puts in the file: every "\n" of the
\* data is written as "\r\n"
NewlineTranslate(data) == Replace(data, "\n", "\r\n")
\* "\n".join(final_lines) + "\n" as it is written
OutputText(ls) == NewlineTranslate(Join("\n", ls) \o "\n")

----------------------------------------------------------------------------
(* The Junk Filter and Finalizer run: deobfuscate_file, steps 5 to 7 *)

MaxLines == 2         \* the number of lines of an input of the Junk Filter
MaxBlankLines == 4    \* the number of lines of an input of the Finalizer

\* the lines of the inputs of the Junk Filter: blank lines, ordinary lines
\* with and without white space around them, lines that a rule matches at
\* their start, lines that hold the text of a rule after other text, and a
\* line that two rules match
CleanupPool ==
    {"", "  echo hello ", "doskey foo=bar", " DOSKEY  foo=bar",
     "echo x & doskey foo=bar", "wmic os get", "start wmic os get",
     "powershell -nop -c \"Write-Host -NoNewLine $null\""}
\* the lines of the inputs of the Finalizer: blank and not
BlankPool == {"", " \t", "echo hello", " a b\t"}

SeqsUpTo(S, n) == UNION {[1..k -> S] : k \in 0..n}
CleanupInputs == SeqsUpTo(CleanupPool, MaxLines) \cup SeqsUpTo(BlankPool, MaxBlankLines)

CInit ==
    /\ scramble_reversed_lines \in CleanupInputs
    /\ removed_junk_lines = <<>>
    /\ final_lines = <<>>
    /\ file_text = ""
    /\ c_pc = "junk"
    /\ RIdle /\ SIdle /\ PIdle /\ HIdle /\ EIdle

\* step 5: removed_junk_lines = remove_inserted_code(scramble_reversed_lines)
RemoveInserted ==
    /\ c_pc = "junk"
    /\ removed_junk_lines' = remove_inserted_code(scramble_reversed_lines)
    /\ c_pc' = "final"
    /\ UNCHANGED <<scramble_reversed_lines, final_lines, file_text>>
    /\ UNCHANGED <<rvars, svars, pvars, hvars, evars>>

\* step 6: final_lines = final_cleanup(removed_junk_lines)
FinalCleanup ==
    /\ c_pc = "final"
    /\ final_lines' = final_cleanup(removed_junk_lines)
    /\ c_pc' = "join"
    /\ UNCHANGED <<scramble_reversed_lines, removed_junk_lines, file_text>>
    /\ UNCHANGED <<rvars, svars, pvars, hvars, evars>>

\* step 7: the argument of write_text is computed
JoinText ==
    /\ c_pc = "join"
    /\ file_text' = OutputText(final_lines)
    /\ c_pc' = "done"
    /\ UNCHANGED <<scramble_reversed_lines, removed_junk_lines, final_lines>>
    /\ UNCHANGED <<rvars, svars, pvars, hvars, evars>>

CNext == RemoveInserted \/ FinalCleanup \/ JoinText

SpecCleanup == CInit /\ [][CNext]_vars

----------------------------------------------------------------------------
(* The command-line run: __main__ and deobfuscate_file *)

\* content.splitlines() on the line boundaries of the model
splitlines(content) ==
    SplitLines(Replace(Replace(Replace(content, "\r\n", "\n"), "\r", "\n"), "\f", "\n"))

\* the decoded content of a file with the given lines
ContentOf(ls) == Join("\r\n", ls) \o (IF ls = <<>> THEN "" ELSE "\r\n")

\* The input files of the runs: an empty file; ordinary lines and junk; a
\* cipher definition with a reference that resolves and one that is nested
\* one deeper than the pass bound; a scrambled file; a boundary whose only
\* block is not well formed; a site whose expression raises SystemExit
PipelineFiles ==
    { <<>>,
      <<"@echo off", "", "  ECHO   hello ", "doskey foo=bar", "echo x & doskey a=b", "">>,
      <<"set a=a", "echo " \o Nest(3), Nest(max_passes + 1)>>,
      <<"k1", "set /a ans=1", "goto %ans%", ":3", "kz", "set /a ans=9", "goto %ans%",
        "goto :eof", ":1", "e1", "set /a ans=9", "goto %ans%">>,
      <<"k1", "goto %ans%", "goto :eof", ":1", "e1", "set /a ans =9", "goto %ans%">> }
    \cup {<<"k1", "set /a ans=" \o QuitterCall(c), "goto %ans%", ":3", "kz",
            "set /a ans=9", "goto %ans%", "goto :eof", ":1", "e1", "set /a ans=9",
            "goto %ans%">> : c \in ExitCodes}

\* What the run finds: whether the input path is a file, a directory or
\* nothing; whether both paths resolve to the same file; whether read_bytes
\* raises IOError; whether the decoding raises; what happens to the write
\* (it succeeds; mkdir or the opening of the file raises; the file is opened
\* and the writing raises); and the content of the input file.
Environments ==
    [in_kind : {"file", "dir", "missing"}, same : BOOLEAN, readable : BOOLEAN,
     decodable : BOOLEAN, write : {"ok", "fails", "partial"},
     content : {ContentOf(f) : f \in PipelineFiles}]

PInit ==
    /\ env \in Environments
    /\ ppc = "main"
    /\ exit_code = -1
    /\ out_file = <<>>
    /\ writes = 0
    /\ RIdle /\ SIdle /\ CIdle /\ HIdle /\ EIdle

\* `if not input_path.is_file()`: exit(1)
CheckInputIsFile ==
    /\ ppc = "main"
    /\ IF env.in_kind # "file"
       THEN exit_code' = 1 /\ ppc' = "exited"
       ELSE exit_code' = exit_code /\ ppc' = "same"
    /\ UNCHANGED <<env, out_file, writes>>
    /\ UNCHANGED <<rvars, svars, cvars, hvars, evars>>

\* `if input_path.resolve() == output_path.resolve()`: exit(1)
CheckSamePath ==
    /\ ppc = "same"
    /\ IF env.same
       THEN exit_code' = 1 /\ ppc' = "exited"
       ELSE exit_code' = exit_code /\ ppc' = "read"
    /\ UNCHANGED <<env, out_file, writes>>
    /\ UNCHANGED <<rvars, svars, cvars, hvars, evars>>

\* (mutant: a failed read is taken for the lines of the file)
read_and_preprocess_NoFailure(e) == <<splitlines(e.content)>>

\* read_and_preprocess(input_path): <<>> for None, <<lines>> for the lines
read_and_preprocess(e) ==
    IF ~e.readable \/ ~e.decodable THEN <<>> ELSE <<splitlines(e.content)>>

\* step 1 of deobfuscate_file: the input is read. If it cannot be read or
\* decoded the function returns and the script ends (exit status 0);
\* otherwise extract_initial_settings starts.
ReadInput ==
    /\ ppc = "read"
    /\ IF read_and_preprocess(env) = <<>>
       THEN /\ exit_code' = 0 /\ ppc' = "exited"
            /\ UNCHANGED rvars
       ELSE /\ lines' = read_and_preprocess(env)[1]
            /\ rpc' = "extract" /\ ei' = 1 /\ settings' = InitialSettings
            /\ ppc' = "resolve"
            /\ UNCHANGED <<exit_code, payload, li, processed_line, last_line, passes,
                           warnings, out>>
    /\ UNCHANGED <<env, out_file, writes>>
    /\ UNCHANGED <<svars, cvars, hvars, evars>>

\* step 4: reverse_scrambling(char_deobfuscated_lines) is called
CallReverseScrambling ==
    /\ ppc = "resolve" /\ rpc = "done"
    /\ s_lines' = out
    /\ s_pc' = "scan"
    /\ ppc' = "scramble"
    /\ UNCHANGED <<s_in, eof_index, blocks, bi, label_to_code, main_text, jumps, ji,
                   reconstructed, last_pos, s_out, raised>>
    /\ UNCHANGED <<env, exit_code, out_file, writes>>
    /\ UNCHANGED <<rvars, cvars, hvars, evars>>

\* SystemExit leaves reverse_scrambling: neither deobfuscate_file nor the
\* script catches it, and the process exits with its code
PropagateExit ==
    /\ ppc = "scramble" /\ s_pc = "raised"
    /\ exit_code' = raised[1]
    /\ ppc' = "exited"
    /\ UNCHANGED <<env, out_file, writes>>
    /\ UNCHANGED <<rvars, svars, cvars, hvars, evars>>

\* step 5: remove_inserted_code(scramble_reversed_lines) is called
CallRemoveInserted ==
    /\ ppc = "scramble" /\ s_pc = "done"
    /\ scramble_reversed_lines' = s_out
    /\ c_pc' = "junk"
    /\ ppc' = "cleanup"
    /\ UNCHANGED <<removed_junk_lines, final_lines, file_text>>
    /\ UNCHANGED <<env, exit_code, out_file, writes>>
    /\ UNCHANGED <<rvars, svars, hvars, evars>>

\* step 7: the output is written; IOError and every other Exception of the
\* writing is caught and printed. The function returns and the script ends.
WriteOutput ==
    /\ ppc = "cleanup" /\ c_pc = "done"
    /\ CASE env.write = "ok" -> out_file' = <<file_text>> /\ writes' = writes + 1
         [] env.write = "partial" ->
                /\ out_file' = <<SubSeq(file_text, 1, Len(file_text) \div 2)>>
                /\ writes' = writes + 1
         [] env.write = "fails" -> UNCHANGED <<out_file, writes>>
    /\ exit_code' = 0
    /\ ppc' = "exited"
    /\ UNCHANGED env
    /\ UNCHANGED <<rvars, svars, cvars, hvars, evars>>

PNext ==
    \/ CheckInputIsFile \/ CheckSamePath \/ ReadInput
    \/ RNext
    \/ CallReverseScrambling
    \/ SNext
    \/ PropagateExit \/ CallRemoveInserted
    \/ CNext
    \/ WriteOutput

SpecPipeline == PInit /\ [][PNext]_vars

\* ---------------------------------------------------------------------------
\* The host service: one deobfuscate request
\* ---------------------------------------------------------------------------

ALLOWED_EXTENSIONS == {".bat", ".cmd"}

\* the last position of the character c in s, 0 if there is none
RFind(s, c) ==
    Only({IF S = {} THEN 0 ELSE CHOOSE x \in S : \A y \in S : y <= x :
              S \in {{i \in 1..Len(s) : Ch(s, i) = c}}})

\* Path(filename).suffix: the text from the last dot of the final path
\* component, empty when that dot is its first or its last character
Suffix(filename) ==
    Only({Only({IF p <= 1 \/ p = Len(name) THEN "" ELSE SubSeq(name, p, Len(name)) :
                    p \in {RFind(name, ".")}}) :
              name \in {SubSeq(filename,
                               RFind(filename, "/") + 1,
                               Len(filename))}})

allowed_file(filename) ==
    IF filename = "" THEN FALSE
    ELSE StrLower(Suffix(filename)) \in ALLOWED_EXTENSIONS

\* the file names of the uploads that are tried
UploadNames == {"", "a.bat", "A.CMD", "a.txt", ".bat", "a.bat.txt"}

\* What a request meets: whether the deobfuscator script was found at start
\* up, whether the request has a file part and its file name, whether
\* mkdtemp and file.save work, how the script run ends (return code 0, another
\* return code, the interpreter is not found, another error), what the output
\* file is after the run, and whether read_text and shutil.rmtree work.
Requests ==
    [deobfuscator_ok : BOOLEAN, has_file : BOOLEAN, filename : UploadNames,
     mkdtemp_ok : BOOLEAN, save_ok : BOOLEAN,
     script : {"rc0", "rc1", "notfound", "error"},
     output : {"text", "empty", "missing"},
     read_ok : BOOLEAN, rmtree_ok : BOOLEAN]

Response(status, success) == <<[status |-> status, success |-> success]>>

HInit ==
    /\ h_env \in Requests
    /\ h_pc = "validate"
    /\ temp_dir = <<>>
    /\ dir_exists = FALSE
    /\ rmtree_calls = 0
    /\ response = <<>>
    /\ RIdle /\ SIdle /\ CIdle /\ PIdle /\ EIdle

\* the input validation, which returns before the try block
Validate ==
    /\ h_pc = "validate"
    /\ IF ~h_env.deobfuscator_ok
       THEN response' = Response(500, FALSE) /\ h_pc' = "returned"
       ELSE IF ~h_env.has_file
       THEN response' = Response(400, FALSE) /\ h_pc' = "returned"
       ELSE IF h_env.filename = "" \/ ~allowed_file(h_env.filename)
       THEN response' = Response(400, FALSE) /\ h_pc' = "returned"
       ELSE response' = response /\ h_pc' = "mkdtemp"
    /\ UNCHANGED <<h_env, temp_dir, dir_exists, rmtree_calls>>
    /\ UNCHANGED <<rvars, svars, cvars, pvars, evars>>

\* temp_dir = tempfile.mkdtemp(prefix="deobf_")
MakeTempDir ==
    /\ h_pc = "mkdtemp"
    /\ IF h_env.mkdtemp_ok
       THEN temp_dir' = <<"deobf_">> /\ dir_exists' = TRUE /\ h_pc' = "save"
       ELSE temp_dir' = temp_dir /\ dir_exists' = dir_exists /\ h_pc' = "except"
    /\ UNCHANGED <<h_env, rmtree_calls, response>>
    /\ UNCHANGED <<rvars, svars, cvars, pvars, evars>>

\* file.save(temp_input_path)
SaveUpload ==
    /\ h_pc = "save"
    /\ h_pc' = (IF h_env.save_ok THEN "run" ELSE "except")
    /\ UNCHANGED <<h_env, temp_dir, dir_exists, rmtree_calls, response>>
    /\ UNCHANGED <<rvars, svars, cvars, pvars, evars>>

\* run_script: success only with return code 0; its own errors are caught
\* and reported as not successful
run_script(script) == script = "rc0"

\* success, _, script_error_output = run_script(cmd); `if not success`
RunDeobfuscator ==
    /\ h_pc = "run"
    /\ IF ~run_script(h_env.script)
       THEN response' = Response(500, FALSE) /\ h_pc' = "finally"
       ELSE response' = response /\ h_pc' = "verify"
    /\ UNCHANGED <<h_env, temp_dir, dir_exists, rmtree_calls>>
    /\ UNCHANGED <<rvars, svars, cvars, pvars, evars>>

\* `if not temp_output_path.is_file() or temp_output_path.stat().st_size == 0`
VerifyOutput ==
    /\ h_pc = "verify"
    /\ IF h_env.output # "text"
       THEN response' = Response(500, FALSE) /\ h_pc' = "finally"
       ELSE response' = response /\ h_pc' = "read"
    /\ UNCHANGED <<h_env, temp_dir, dir_exists, rmtree_calls>>
    /\ UNCHANGED <<rvars, svars, cvars, pvars, evars>>

\* processed_code = temp_output_path.read_text(...); the success response
ReadOutput ==
    /\ h_pc = "read"
    /\ IF h_env.read_ok
       THEN response' = Response(200, TRUE) /\ h_pc' = "finally"
       ELSE response' = response /\ h_pc' = "except"
    /\ UNCHANGED <<h_env, temp_dir, dir_exists, rmtree_calls>>
    /\ UNCHANGED <<rvars, svars, cvars, pvars, evars>>

\* `except Exception`: the unexpected error response
HandleException ==
    /\ h_pc = "except"
    /\ response' = Response(500, FALSE)
    /\ h_pc' = "finally"
    /\ UNCHANGED <<h_env, temp_dir, dir_exists, rmtree_calls>>
    /\ UNCHANGED <<rvars, svars, cvars, pvars, evars>>

\* (mutant: the directory is removed after the success response only)
CleanupNeeded_AfterSuccess == temp_dir # <<>> /\ dir_exists /\ response[1].success
\* `if temp_dir and Path(temp_dir).exists()`
CleanupNeeded == temp_dir # <<>> /\ dir_exists

\* the finally block: shutil.rmtree(temp_dir), whose failure is logged only;
\* then the handler returns the response that was prepared
Finally ==
    /\ h_pc = "finally"
    /\ IF CleanupNeeded
       THEN /\ rmtree_calls' = rmtree_calls + 1
            /\ dir_exists' = ~h_env.rmtree_ok
       ELSE /\ rmtree_calls' = rmtree_calls
            /\ dir_exists' = dir_exists
    /\ h_pc' = "returned"
    /\ UNCHANGED <<h_env, temp_dir, response>>
    /\ UNCHANGED <<rvars, svars, cvars, pvars, evars>>

HNext ==
    \/ Validate
    \/ MakeTempDir
    \/ SaveUpload
    \/ RunDeobfuscator
    \/ VerifyOutput
    \/ ReadOutput
    \/ HandleException
    \/ Finally

SpecHost == HInit /\ [][HNext]_vars

----------------------------------------------------------------------------
(* One call of the Expression Evaluator *)

MaxOperand == 7     \* the operands of a binary expression range over -MaxOperand..MaxOperand
MaxLiteral == 17    \* the integer literals range over 0..MaxLiteral

\* the operators of `set /a` that take two operands
BinaryOperators == {"+", "-", "*", "/", "%", "&", "|", "^", "<<", ">>"}

\* the digits of n in the base (8 or 16), as `set /a` and Python write them
RECURSIVE ToBase(_, _)
ToBase(n, base) ==
    IF n < base THEN Ch("0123456789abcdef", n + 1)
    ELSE ToBase(n \div base, base) \o Ch("0123456789abcdef", (n % base) + 1)

\* The expressions that are evaluated, each with the way it was built:
\* two operands around an operator, with and without blanks; an integer
\* literal in decimal, hexadecimal (0x) and octal (leading 0) form; and
\* texts that are empty, malformed, hold a name or a disallowed token, or
\* divide by zero.
BinaryExpressions ==
    {[kind |-> "binary", op |-> o, a |-> x, b |-> y,
      text |-> IntToStr(x) \o sp \o o \o sp \o IntToStr(y)] :
        o \in BinaryOperators, x \in -MaxOperand..MaxOperand,
        y \in -MaxOperand..MaxOperand, sp \in {" "}}
    \cup {[kind |-> "binary", op |-> "/", a |-> x, b |-> y,
           text |-> IntToStr(x) \o "/" \o IntToStr(y)] :
        x \in -MaxOperand..MaxOperand, y \in -MaxOperand..MaxOperand}
LiteralExpressions ==
    {[kind |-> "decimal", op |-> "", a |-> n, b |-> 0, text |-> IntToStr(n)] :
        n \in 0..MaxLiteral}
    \cup {[kind |-> "hex", op |-> "", a |-> n, b |-> 0, text |-> p \o ToBase(n, 16)] :
        n \in 0..MaxLiteral, p \in {"0x", "0X"}}
    \cup {[kind |-> "octal", op |-> "", a |-> n, b |-> 0, text |-> "0" \o ToBase(n, 8)] :
        n \in 0..MaxLiteral}
FaultyExpressions ==
    {[kind |-> "empty", op |-> "", a |-> 0, b |-> 0, text |-> t] : t \in {"", "  ", "\t "}}
    \cup {[kind |-> "malformed", op |-> "", a |-> 0, b |-> 0, text |-> t] :
        t \in {"1 +", "(1", "1 2", ")", "0x", "* 3", "1 + * 2"}}
    \cup {[kind |-> "name", op |-> "", a |-> 0, b |-> 0, text |-> t] :
        t \in {"q", "1 + q", "True", "False", "ans", "1 + True"}}
    \cup {[kind |-> "disallowed", op |-> "", a |-> 0, b |-> 0, text |-> t] :
        t \in {"1 $ 2", "1 = 1", "1 ; 2"} \cup {QuitterCall(c) : c \in ExitCodes}}
    \cup {[kind |-> "zerodiv", op |-> "", a |-> 0, b |-> 0, text |-> t] :
        t \in {"1 / 0", "5 % 0", "1/(2-2)", "0 / 0"}}
Expressions == BinaryExpressions \cup LiteralExpressions \cup FaultyExpressions

EInit ==
    /\ e_in \in Expressions
    /\ e_pc = "call"
    /\ e_result = <<>>
    /\ e_raised = <<>>
    /\ RIdle /\ SIdle /\ CIdle /\ PIdle /\ HIdle

\* safe_eval_batch_math(expression) returns
EvalReturns ==
    /\ e_pc = "call"
    /\ safe_eval_exit(e_in.text) = <<>>
    /\ e_result' = safe_eval_batch_math(e_in.text)
    /\ e_pc' = "returned"
    /\ UNCHANGED <<e_in, e_raised>>
    /\ UNCHANGED <<rvars, svars, cvars, pvars, hvars>>

\* SystemExit leaves safe_eval_batch_math(expression)
EvalRaises ==
    /\ e_pc = "call"
    /\ safe_eval_exit(e_in.text) # <<>>
    /\ e_raised' = safe_eval_exit(e_in.text)
    /\ e_pc' = "raised"
    /\ UNCHANGED <<e_in, e_result>>
    /\ UNCHANGED <<rvars, svars, cvars, pvars, hvars>>

ENext == EvalReturns \/ EvalRaises

SpecEval == EInit /\ [][ENext]_vars

----------------------------------------------------------------------------
(* Claims about the Character Resolver *)

PText == PayloadText(payload)          \* the payload line
POut == out[Len(lines)]                \* what the Resolver returned for it
\* the payload line with its token replaced by r, as the last pass leaves it
Expected(r) == NormalizeCase(payload.pre \o r \o payload.post)

\* the definition lines `set c=<letter>` for the letter c, by line number
DefsOf(c) ==
    {i \in 1..(Len(lines) - 1) :
        LET m == Match(RE_CAESAR_DEF, lines[i]) IN
        IF m.alt = 0 THEN FALSE ELSE StrLower(MGroup(m, lines[i], 7, 7)) = c}
FirstDef(c) == CHOOSE i \in DefsOf(c) : \A j \in DefsOf(c) : i <= j
RhsOf(i) == MGroup(Match(RE_CAESAR_DEF, lines[i]), lines[i], 9, 9)

\* C1: after the definition line `set c=<letter>` (the first one for c), a
\* cipher reference %c% in a line is replaced by that right-hand letter.
C1_CipherRefResolvesToRhs ==
    (rpc = "done" /\ payload.tok.kind = "caesar"
        /\ DefsOf(StrLower(payload.tok.var)) # {})
    => POut = Expected(RhsOf(FirstDef(StrLower(payload.tok.var))))

\* C2: with the auxiliary value V of `set KDOT=V`, a slice token %KDOT:~i,1%
\* with i in range for V is replaced by the character of V at index i.
C2_KdotSliceResolved ==
    (rpc = "done" /\ payload.tok.kind = "kdot" /\ settings.kdot_found
        /\ 0 <= payload.tok.idx /\ payload.tok.idx < Len(settings.kdot_value))
    => POut = Expected(Ch(settings.kdot_value, payload.tok.idx + 1))

\* the effective index of the environment slice of the payload
EffIdx ==
    IF payload.tok.idx < 0
    THEN Len(ENV_VAR_VALUES[payload.tok.var]) + payload.tok.idx
    ELSE payload.tok.idx
EffInRange == 0 <= EffIdx /\ EffIdx < Len(ENV_VAR_VALUES[payload.tok.var])
KnownEnvSlice == payload.tok.kind = "env" /\ payload.tok.var \in DOMAIN ENV_VAR_VALUES

\* C3: an environment slice of a variable of ENV_VAR_VALUES whose effective
\* index is within the value is replaced by the character at that index.
C3_EnvSliceResolved ==
    (rpc = "done" /\ KnownEnvSlice)
    => (EffInRange => POut = Expected(Ch(ENV_VAR_VALUES[payload.tok.var], EffIdx + 1)))

\* C4: an environment slice of a known variable whose index is out of
\* bounds stays in the output as the original token text.
C4_OutOfBoundsTokenKept ==
    (rpc = "done" /\ KnownEnvSlice)
    => (~EffInRange => POut = Expected(payload.tok.text))

\* the steps a line can take at most: BeginLine, the passes of both loops and
\* the two loop exits
LineBudget == max_passes + max_passes_junk + 3
\* a bound on the number of steps that remain when line l is at step `used`
StepsLeft(l, used) == (Len(lines) - l) * LineBudget + (LineBudget - used)
\* a bound on the number of steps that the run can still take
Rank ==
    CASE rpc = "extract" -> StepsLeft(1, 0) + 1 + (Len(lines) + 1 - ei) + 1
      [] rpc = "line" -> StepsLeft(li, 0) + 1
      [] rpc = "pass1" -> StepsLeft(li, 1 + passes) + 1
      [] rpc = "pass2" -> StepsLeft(li, 2 + max_passes + passes) + 1
      [] rpc = "done" -> 0

\* C5: the Resolver terminates on every input; the combined pass runs at most
\* max_passes (15) times and the junk pass at most max_passes_junk (5) times
\* on a line. Termination: every step of the run lowers Rank, a natural
\* number, so no run takes more steps than the Rank of its first state.
C5_BoundedPassesAndTermination ==
    /\ [](rpc = "pass1" => passes <= max_passes)
    /\ [](rpc = "pass2" => passes <= max_passes_junk)
    /\ [](Rank \in Nat)
    /\ [][Rank' < Rank]_vars

\* C5 witness: the bound of a loop is reached on a line that one more pass
\* would still change (a chain nested deeper than the bound).
C5_Witness ==
    /\ rpc = "pass1" /\ passes = max_passes
    /\ CombinedPass(processed_line, settings) # processed_line

\* no token of the combined pattern, no junk wrap and no leftover marker
TokenFree(line) ==
    /\ FindIter(RE_COMBINED_SPECIFIC_CHAR_OBF, line) = <<>>
    /\ FindIter(RE_SIMPLE_JUNK, line) = <<>>
    /\ Find(line, "%escape%", 1) = 0
    /\ Find(line, "%STOP_OBF_HERE%", 1) = 0

\* the words of the line are separated by single spaces with nothing around
\* them, and a first word that names a command is in lower case
FirstWordOk(w) ==
    \/ StrLower(w) = w
    \/ \A k \in 0..Len(w) :
          (\A j \in 1..k : Ch(w, j) = ":") => StrLower(SubSeq(w, k + 1, Len(w))) \notin known_commands
InNormalForm(line) ==
    \/ \A i \in 1..Len(line) : Ch(line, i) \in WhiteSpace
    \/ /\ Ch(line, 1) \notin WhiteSpace /\ Ch(line, Len(line)) \notin WhiteSpace
       /\ \A i \in 1..Len(line) : Ch(line, i) \in WhiteSpace =>
             (Ch(line, i) = " " /\ Ch(line, i + 1) \notin WhiteSpace)
       /\ FirstWordOk(Split(line)[1])

----------------------------------------------------------------------------
(* Claims about the Scramble Reverser *)

Range(seq) == {seq[i] : i \in 1..Len(seq)}

\* the dispatch sites of the input in their order, and their labels
SitesOf(in) == SelectSeq(in.items, LAMBDA it : it.site)
SiteLabels(in) == [k \in 1..Len(SitesOf(in)) |-> SitesOf(in)[k].label]
\* the ordinary lines of the main section in their order: the lines that
\* belong to no dispatch site (none of them is blank)
OrdinaryLines(in) ==
    Flatten([k \in 1..Len(in.items) |->
                IF in.items[k].site THEN <<>> ELSE in.items[k].lines]) \o in.ending
\* the statement of the block for the label
StmtOf(in, label) == (CHOOSE b \in Range(in.blocks) : b.label = label).stmt
Statements(in) == {b.stmt : b \in Range(in.blocks)}

\* the boundary is in the input: a marker line that follows `goto %ans%`
HasBoundary(in) ==
    /\ in.marker # <<>> /\ IsEofMarker(in.marker[1])
    /\ in.ending # <<>> /\ IsGotoAns(in.ending[Len(in.ending)])

\* N sites that evaluate to the distinct labels 1..N, the boundary, and one
\* well-formed block for every label
IsRoundTrip(in) ==
    /\ HasBoundary(in) /\ in.valid
    /\ \A k \in 1..Len(in.items) : ~in.items[k].fails
    /\ Len(SitesOf(in)) >= 1
    /\ Range(SiteLabels(in)) = 1..Len(SitesOf(in))
    /\ Len(in.blocks) = Len(SitesOf(in))
    /\ {b.label : b \in Range(in.blocks)} = 1..Len(SitesOf(in))

\* C7: on a round-trip input the statements in the output are, in order, the
\* statements of the blocks that the sites evaluate to, each exactly once.
C7_ScrambleRoundTrip ==
    (s_pc = "done" /\ IsRoundTrip(s_in))
    => SelectSeq(s_out, LAMBDA ln : ln \in Statements(s_in))
       = [k \in 1..Len(SitesOf(s_in)) |-> StmtOf(s_in, SiteLabels(s_in)[k])]

\* C7 witness: two sites that evaluate to the labels 2 and 1, written with
\* expressions that need evaluation, among ordinary lines, with blocks that
\* hold more than the statement.
C7_Witness ==
    /\ s_pc = "done" /\ IsRoundTrip(s_in)
    /\ SiteLabels(s_in) = <<2, 1>>
    /\ Len(s_in.items) > 2
    /\ Len(s_in.blocks[1].lines) > 4
    /\ "\tGoTo %ANS%" \in Range(s_lines)
    /\ "  SET  /A ans = 4/2 " \in Range(s_lines)

\* C8: when the boundary is detected, no dispatch site whose expression
\* fails to evaluate, or evaluates to a label that has no block, is left in
\* the output.
C8_FailingSitesDeleted ==
    (s_pc = "done" /\ eof_index # -1)
    => \A k \in 1..Len(s_in.items) :
          s_in.items[k].fails => s_in.items[k].lines[1] \notin Range(s_out)

\* a is a subsequence of b
RECURSIVE IsSubseq(_, _)
IsSubseq(a, b) ==
    IF a = <<>> THEN TRUE
    ELSE IF b = <<>> THEN FALSE
    ELSE IF a[1] = b[1] THEN IsSubseq(Tail(a), Tail(b))
    ELSE IsSubseq(a, Tail(b))

\* C9: when a dispatch site was replaced or removed, the ordinary lines of
\* the main section are in the output, unchanged and in their order.
C9_OrdinaryLinesKept ==
    (s_pc = "done" /\ jumps # <<>>) => IsSubseq(OrdinaryLines(s_in), s_out)

\* a line `set /a ans=<expr>`
IsSetAns(line) ==
    Match(<< <<SStar, WordI("set"), SPlus, WordI("/a"), SPlus, WordI("ans"), SStar,
               Word("=")>> >>, line).alt # 0

\* C10: when the boundary is detected, no line `goto %ans%` and no line
\* `set /a ans=<expr>` is in the output.
C10_NoDispatchFragment ==
    (s_pc = "done" /\ eof_index # -1)
    => \A i \in 1..Len(s_out) : ~IsGotoAns(s_out[i]) /\ ~IsSetAns(s_out[i])

----------------------------------------------------------------------------
(* Claims about the command-line run *)

\* the two conditions that the script checks before it runs the pipeline
InvalidPaths == env.in_kind # "file" \/ env.same

\* C11: the run exits with code 1 exactly when the input path is not an
\* existing file or both paths resolve to the same file, and with code 0 in
\* every other case (an unreadable input, warnings, a failed write).
C11_ExitCodeOneIffInvalidPaths ==
    ppc = "exited" => exit_code = (IF InvalidPaths THEN 1 ELSE 0)

\* the input is a file, the paths differ, and reading or decoding it fails
ReadFails == ~InvalidPaths /\ (~env.readable \/ ~env.decodable)
\* every stage has run to its end, each on the result of the one before it
PipelineComputed ==
    /\ rpc = "done" /\ s_pc = "done" /\ c_pc = "done"
    /\ s_lines = out
    /\ scramble_reversed_lines = s_out
    /\ file_text = OutputText(final_cleanup(remove_inserted_code(s_out)))

\* C12: the output file is written at most once in a run, and only when
\* every stage (resolve, scramble reversal, junk filter, finalizer) has
\* completed; when reading or decoding the input fails the output path is
\* never created or modified.
C12_SingleWriteAfterPipeline ==
    /\ [](writes <= 1)
    /\ [][(out_file' # out_file \/ writes' # writes)
          => (writes = 0 /\ writes' = 1 /\ PipelineComputed)]_vars
    /\ [](ReadFails => (out_file = <<>> /\ writes = 0))

\* C12 witness: a run that has written the whole output of a scrambled file
C12_Witness ==
    /\ ppc = "exited" /\ writes = 1 /\ out_file = <<file_text>>
    /\ DOMAIN label_to_code # {} /\ Len(final_lines) > 1

----------------------------------------------------------------------------
(* Claims about the Junk Filter and the Finalizer *)

EndsWith(s, suffix) ==
    Len(s) >= Len(suffix) /\ SubSeq(s, Len(s) - Len(suffix) + 1, Len(s)) = suffix

\* C13: in the output of the Finalizer every line is trimmed, no two
\* consecutive lines are blank and the last line is not blank; the text that
\* is written ends with exactly one line terminator, also for an empty list
\* of lines.
C13_FinalizerNormalForm ==
    c_pc = "done"
    => /\ \A i \in 1..Len(final_lines) : final_lines[i] = Strip(final_lines[i])
       /\ \A i \in 1..(Len(final_lines) - 1) :
             ~(final_lines[i] = "" /\ final_lines[i + 1] = "")
       /\ final_lines # <<>> => final_lines[Len(final_lines)] # ""
       /\ EndsWith(file_text, "\r\n") /\ ~EndsWith(file_text, "\r\n\r\n")
       /\ final_lines = <<>> => file_text = "\r\n"

\* C13 witness: an input with white space around a line, a run of blank
\* lines between two lines and a blank line at its end
C13_Witness ==
    /\ c_pc = "done"
    /\ \E i \in 1..(Len(removed_junk_lines) - 1) :
          /\ Strip(removed_junk_lines[i]) = "" /\ Strip(removed_junk_lines[i + 1]) = ""
          /\ i > 1 /\ Strip(removed_junk_lines[i - 1]) # removed_junk_lines[i - 1]
    /\ Strip(removed_junk_lines[Len(removed_junk_lines)]) = ""
    /\ Len(final_lines) = 1

\* a rule without the ^\s* that every rule of the catalog starts with: the
\* text of the rule, wherever it stands in a line
Unanchored(rule) == [a \in 1..Len(rule) |-> SubSeq(rule[a], 3, Len(rule[a]))]
HoldsRuleText(line) ==
    \E k \in 1..Len(RE_JUNK_TO_REMOVE) : RuleMatches(Unanchored(RE_JUNK_TO_REMOVE[k]), line)

\* C14: a line is dropped whenever the text of a catalog rule occurs anywhere
\* in it, not only at its start.
C14_RuleTextAnywhereDropsLine ==
    c_pc = "final"
    => \A i \in 1..Len(scramble_reversed_lines) :
          HoldsRuleText(scramble_reversed_lines[i])
          => \A j \in 1..Len(removed_junk_lines) :
                removed_junk_lines[j] # scramble_reversed_lines[i]

Reverse(seq) == [i \in 1..Len(seq) |-> seq[Len(seq) + 1 - i]]
Rotate(seq, n) == [i \in 1..Len(seq) |-> seq[((i - 1 + n) % Len(seq)) + 1]]
\* the rule that is credited for a line under a reordered catalog, as a
\* number of the catalog of the program
CreditedReversed(line) ==
    Only({IF k = 0 THEN 0 ELSE Len(RE_JUNK_TO_REMOVE) + 1 - k :
              k \in {FirstRule(Reverse(RE_JUNK_TO_REMOVE), line)}})
\* permutations of the rule catalog: reversed, rotated by one rule and by
\* half of the rules
CatalogPermutations ==
    {Reverse(RE_JUNK_TO_REMOVE), Rotate(RE_JUNK_TO_REMOVE, 1),
     Rotate(RE_JUNK_TO_REMOVE, Len(RE_JUNK_TO_REMOVE) \div 2)}

\* C15: the output of the Junk Filter is the subsequence of the input lines
\* that no rule matches, every kept line unchanged and in its place, and it
\* is the same under every permutation of the catalog; `doskey foo=bar` is
\* removed and `echo hello` is kept.
C15_FilterIsOrderFreeSubsequence ==
    c_pc = "final"
    => /\ removed_junk_lines =
              SelectSeq(scramble_reversed_lines,
                        LAMBDA line : \A k \in 1..Len(RE_JUNK_TO_REMOVE) :
                                          ~RuleMatches(RE_JUNK_TO_REMOVE[k], line))
       /\ \A catalog \in CatalogPermutations :
             KeepFrom(catalog, scramble_reversed_lines, 1, <<>>) = removed_junk_lines
       /\ \A j \in 1..Len(removed_junk_lines) : removed_junk_lines[j] # "doskey foo=bar"
       /\ Len(SelectSeq(removed_junk_lines, LAMBDA line : line = "echo hello"))
             = Len(SelectSeq(scramble_reversed_lines, LAMBDA line : line = "echo hello"))

\* C15 witness: a line that two rules match is dropped (the reversed catalog
\* credits another rule for it) and a padded ordinary line is kept as it is
C15_Witness ==
    /\ c_pc = "final"
    /\ Len(scramble_reversed_lines) = 2 /\ Len(removed_junk_lines) = 1
    /\ removed_junk_lines[1] # Strip(removed_junk_lines[1])
    /\ \E i \in 1..2 :
          /\ FirstRule(RE_JUNK_TO_REMOVE, scramble_reversed_lines[i]) # 0
          /\ FirstRule(RE_JUNK_TO_REMOVE, scramble_reversed_lines[i])
                # CreditedReversed(scramble_reversed_lines[i])


\* ---------------------------------------------------------------------------
\* Claims about the host service
\* ---------------------------------------------------------------------------

----------------------------------------------------------------------------
(* The bound warning of the Character Resolver *)

\* C17 as stated: when the combined loop of a line ends, the "bound reached"
\* warning is emitted, once, if and only if 15 passes were made and the line
\* is still not a fixed point of the combined pass; it is not emitted when
\* the 15th pass itself reached the fixed point.
C17_WarningIffNotAFixedPoint ==
    [][(rpc = "pass1" /\ rpc' = "pass2")
         => warnings' = (IF passes >= max_passes
                            /\ CombinedPass(processed_line, settings) # processed_line
                         THEN Append(warnings, [line |-> li, loop |-> "specific"])
                         ELSE warnings)]_vars


----------------------------------------------------------------------------
(* Claims about the Expression Evaluator *)

Abs(n) == IF n < 0 THEN 0 - n ELSE n
\* the quotient of a by b rounded toward zero, as `set /a` computes it
TruncDiv(a, b) ==
    IF (a < 0) = (b < 0) THEN Abs(a) \div Abs(b) ELSE 0 - (Abs(a) \div Abs(b))

\* C18 as stated: the division of the Evaluator truncates toward zero for
\* every pair of integer operands with a non-zero divisor, of either sign
\* (-7 / 2 is -3).
C18_DivisionTruncatesTowardZero ==
    (e_pc = "returned" /\ e_in.kind = "binary" /\ e_in.op = "/" /\ e_in.b # 0)
    => e_result = <<TruncDiv(e_in.a, e_in.b)>>

\* C19 as stated: an integer literal in decimal, hexadecimal (0x) or octal
\* (leading 0) form evaluates to its numeric value (010 is 8, 0x10 is 16).
C19_LiteralsOfThreeBases ==
    (e_pc = "returned" /\ e_in.kind \in {"decimal", "hex", "octal"})
    => e_result = <<e_in.a>>

\* C20 as stated: for an expression text that is empty, malformed, holds a
\* name or another disallowed token, or divides by zero, the Evaluator
\* returns "no result" and raises nothing.
C20_FaultyExpressionGivesNoResult ==
    (e_pc # "call" /\ e_in.kind \in {"empty", "malformed", "name", "disallowed", "zerodiv"})
    => (e_pc = "returned" /\ e_result = <<>> /\ e_raised = <<>>)


----------------------------------------------------------------------------
(* Claims about the label map and the boundary of the Scramble Reverser *)

\* the statement that replaces a site whose expression has the value v: the
\* statement of the block whose label text is the decimal string of v, and
\* nothing if there is no such block
ReplacementOf(in, v) ==
    IF \E b \in Range(in.blocks) : b.text = IntToStr(v)
    THEN <<(CHOOSE b \in Range(in.blocks) : b.text = IntToStr(v)).stmt>>
    ELSE <<>>

\* C21: a dispatch site is replaced by a statement if and only if the decimal
\* string of the value of its expression is equal to the label text of a
\* parsed block, and the statement is the one of that block; the statement of
\* a block whose label is written with leading zeros is never inserted, and a
\* site with a negative value is never replaced.
C21_ExactLabelStringMatch ==
    (s_pc = "done" /\ s_in \in LabelInputs)
    => /\ SelectSeq(s_out, LAMBDA ln : ln \in Statements(s_in))
              = Flatten([k \in 1..Len(SitesOf(s_in)) |->
                            ReplacementOf(s_in, SitesOf(s_in)[k].label)])
       /\ \A b \in Range(s_in.blocks) :
             b.text # IntToStr(b.label) => b.stmt \notin Range(s_out)
       /\ \A k \in 1..Len(SitesOf(s_in)) :
             SitesOf(s_in)[k].label < 0 => Range(s_out) \cap Statements(s_in) = {}

\* C21 witness: the blocks :007 and :7 are both in the label map, the site
\* evaluates `3 + 4`, and the statement of :7 has replaced it
C21_Witness ==
    /\ s_pc = "done" /\ s_in \in LabelInputs
    /\ DOMAIN label_to_code = {"007", "7"}
    /\ "set /a ans=3 + 4" \in Range(s_lines)
    /\ "e7" \in Range(s_out)


\* the blocks of the input that have a statement, in their order
BlocksWithBody(in) == SelectSeq(in.blocks, LAMBDA b : b.stmt # "")
\* for every label of a block with a statement, the statement of the last
\* such block
LastWinsMap(in) ==
    [l \in {IntToStr(b.label) : b \in Range(BlocksWithBody(in))} |->
        LET same == SelectSeq(BlocksWithBody(in), LAMBDA b : IntToStr(b.label) = l)
        IN  same[Len(same)].stmt]

\* C22: after tail parsing the label map holds, for every label, the trimmed
\* first non-blank body line of the last block with that label that has one;
\* a block whose body has no non-blank line adds no entry.
C22_LabelMapLastBlockWins ==
    (s_pc \in {"rewrite", "done"} /\ eof_index # -1 /\ s_in \in TailInputs)
    => label_to_code = LastWinsMap(s_in)


\* the positions of the lines that are a marker (`goto :eof` or `exit /b 0`,
\* trimmed, in any case) right after a `goto %ans%` line
MarkerPositions(ls) ==
    {i \in 1..Len(ls) : i > 1 /\ IsEofMarker(ls[i]) /\ IsGotoAns(ls[i - 1])}

\* C23: when no marker line follows a `goto %ans%` line, the Scramble
\* Reverser returns its input lines unchanged, whatever sites and blocks they
\* hold; otherwise the boundary is the first marker line that does.
C23_NoBoundaryIsPassThrough ==
    s_pc # "scan"
    => IF MarkerPositions(s_lines) = {}
       THEN s_pc = "done" /\ eof_index = -1 /\ s_out = s_lines
       ELSE /\ eof_index + 1 \in MarkerPositions(s_lines)
            /\ \A i \in MarkerPositions(s_lines) : eof_index + 1 <= i

\* C23 witness: an input with a dispatch site, a block, a `goto %ans%` line
\* and a marker line that does not follow it, returned as it is.
C23_Witness ==
    /\ s_pc = "done" /\ s_out = s_lines
    /\ SitesOf(s_in) # <<>> /\ s_in.blocks # <<>>
    /\ s_lines[1] = "goto :eof"
    /\ \E i \in 1..Len(s_lines) : i > 2 /\ IsEofMarker(s_lines[i]) /\ s_lines[i - 1] = ""
                                   /\ IsGotoAns(s_lines[i - 2])


----------------------------------------------------------------------------
(* Claims about the Settings Extractor and the passes of the Character Resolver *)

\* the value of a `set KDOT=` line, and the key and the value of a cipher
\* definition line; <<>> for any other line
KdotOf(line) ==
    LET m == Match(RE_KDOT, line) IN
    IF m.alt = 0 THEN <<>> ELSE <<MGroup(m, line, 12, 12)>>
CaesarOf(line) ==
    LET m == Match(RE_CAESAR_DEF, line) IN
    IF m.alt = 0 THEN <<>>
    ELSE <<StrLower(MGroup(m, line, 9, 9)), StrLower(MGroup(m, line, 7, 7))>>

\* the settings that first-wins gives for the lines
FirstKdot(ls) ==
    LET K == {i \in 1..Len(ls) : KdotOf(ls[i]) # <<>>} IN
    IF K = {} THEN "" ELSE KdotOf(ls[Least(K)])[1]
FirstCaesar(ls) ==
    LET D == {i \in 1..Len(ls) : CaesarOf(ls[i]) # <<>>} IN
    [k \in {CaesarOf(ls[i])[1] : i \in D} |->
        CaesarOf(ls[Least({i \in D : CaesarOf(ls[i])[1] = k})])[2]]

\* C24: when all lines are read, and when the run is over, the auxiliary
\* value is the value of the first `set KDOT=` line and every key of the
\* reverse cipher map holds the value of its first definition: a later line
\* for the value or for a key has changed neither.
C24_SettingsFirstWins ==
    ((rpc = "extract" /\ ei > Len(lines)) \/ rpc = "done")
    => /\ settings.kdot_value = FirstKdot(lines)
       /\ settings.kdot_found = (FirstKdot(lines) # "")
       /\ settings.reverse_caesar_map = FirstCaesar(lines)

\* C24 witness: the run is over; two lines set KDOT to different values and
\* two lines define the key a with different letters.
C24_Witness ==
    /\ rpc = "done" /\ Len(lines) > 4
    /\ SubSeq(lines, 1, 4) = <<"SET q=a", "set y=a", "  set  KDOT=Zq9", "set KDOT=abc">>
    /\ settings.kdot_value = "Zq9"
    /\ settings.reverse_caesar_map = ("a" :> "q")

\* every token that the pass finds in the line has at least 3 characters and
\* is replaced by at most one character or by itself
TokensShrink(line, combined, st) ==
    LET ms == FindIter(IF combined THEN RE_COMBINED_SPECIFIC_CHAR_OBF ELSE RE_SIMPLE_JUNK,
                       line)
    IN  \A k \in 1..Len(ms) :
            LET token == MText(ms[k], line)
                repl == IF combined THEN replace_callback(ms[k], line, st)
                        ELSE MGroup(ms[k], line, 4, 4)
            IN  Len(token) >= 3 /\ (repl = token \/ Len(repl) <= 1)

\* the pass, applied again and again without a bound on the passes, leaves
\* the line as it is after at most n passes, each shortening the line
RECURSIVE SettlesWithin(_, _, _, _)
SettlesWithin(line, combined, st, n) ==
    Only({\/ next = line
          \/ /\ n > 0 /\ Len(next) < Len(line)
             /\ SettlesWithin(next, combined, st, n - 1) :
              next \in {IF combined THEN CombinedPass(line, st) ELSE JunkPass(line)}})

\* C25: a pass of either loop that changes the line makes it strictly
\* shorter; in the line that a loop starts with, every token is replaced by
\* at most one character or by itself; and where a loop stops at its bound
\* with a line that still changes, further passes reach a fixed point within
\* as many passes as the line has characters.
C25_ChangingPassShortens ==
    /\ (rpc \in {"pass1", "pass2"} /\ last_line # <<>> /\ processed_line # last_line[1])
       => Len(processed_line) < Len(last_line[1])
    /\ (rpc \in {"pass1", "pass2"} /\ last_line = <<>>)
       => TokensShrink(processed_line, rpc = "pass1", settings)
    /\ (rpc \in {"pass1", "pass2"}
        /\ BoundReached(processed_line, last_line, passes,
                        IF rpc = "pass1" THEN max_passes ELSE max_passes_junk))
       => SettlesWithin(processed_line, rpc = "pass1", settings, Len(processed_line))

\* C25 witness: the third pass over nested cipher references has taken two
\* characters off the line.
C25_Witness ==
    /\ rpc = "pass1" /\ passes = 3 /\ last_line # <<>>
    /\ payload.tok.kind = "nest"
    /\ Len(processed_line) + 2 = Len(last_line[1])

====
